---- MODULE Spec2Model ----
(***************************************************************************)
(* Birth-record spreadsheet ingestion (app/utils/excel_parser.py) and the  *)
(* API layer that consumes it.                                             *)
(*                                                                         *)
(* Text is modelled as sequences of one-character strings so that trim,    *)
(* lower-casing, title-casing, replacement and substring tests are         *)
(* computed character by character, as Python computes them.               *)
(*                                                                         *)
(* A cell of a worksheet, a column label and a value of a record are all   *)
(* records [t, v]: t is the Python type ("nan" missing float NaN, "str",   *)
(* "num" an int, "ts" a pandas Timestamp, "date" a datetime.date, "none"   *)
(* Python None) and v the characters of str(value) for "str" and "num",    *)
(* the ISO form YYYY-MM-DD for "ts" and "date", and <<>> otherwise.        *)
(***************************************************************************)
EXTENDS Integers, Sequences, FiniteSets, TLC

----------------------------------------------------------------------------
(* Characters and Python str methods *)

UpperChars ==
    <<"A","B","C","D","E","F","G","H","I","J","K","L","M",
      "N","O","P","Q","R","S","T","U","V","W","X","Y","Z">>

LowerChars ==
    <<"a","b","c","d","e","f","g","h","i","j","k","l","m",
      "n","o","p","q","r","s","t","u","v","w","x","y","z">>

DigitChars == <<"0","1","2","3","4","5","6","7","8","9">>

IsUpperCh(c) == \E i \in 1..26 : UpperChars[i] = c

IsLowerCh(c) == \E i \in 1..26 : LowerChars[i] = c

IsCasedCh(c) == IsUpperCh(c) \/ IsLowerCh(c)

IsDigitCh(c) == \E i \in 1..10 : DigitChars[i] = c

DigitVal(c) == (CHOOSE i \in 1..10 : DigitChars[i] = c) - 1

LowerCh(c) ==
    IF IsUpperCh(c) THEN LowerChars[CHOOSE i \in 1..26 : UpperChars[i] = c] ELSE c

UpperCh(c) ==
    IF IsLowerCh(c) THEN UpperChars[CHOOSE i \in 1..26 : LowerChars[i] = c] ELSE c

\* str.lower()
StrLower(s) == [i \in 1..Len(s) |-> LowerCh(s[i])]

\* str.upper()
StrUpper(s) == [i \in 1..Len(s) |-> UpperCh(s[i])]

\* str.title(): a cased character is upper-cased when it follows an uncased
\* character (or starts the string) and lower-cased otherwise.
StrTitle(s) ==
    [i \in 1..Len(s) |->
        IF i = 1 \/ ~IsCasedCh(s[i-1]) THEN UpperCh(s[i]) ELSE LowerCh(s[i])]

\* str.strip(): leading and trailing white space removed.
StrStrip(s) ==
    LET keep == {i \in 1..Len(s) : s[i] # " "}
    IN  IF keep = {} THEN <<>>
        ELSE LET lo == CHOOSE i \in keep : \A j \in keep : i <= j
                 hi == CHOOSE i \in keep : \A j \in keep : j <= i
             IN  SubSeq(s, lo, hi)

\* str.replace(a, b) for a single character a and a single character b.
StrReplaceCh(s, a, b) == [i \in 1..Len(s) |-> IF s[i] = a THEN b ELSE s[i]]

\* str.replace(a, "") for a single character a.
StrRemoveCh(s, a) == SelectSeq(s, LAMBDA c : c # a)

\* sub in s
StrContains(s, sub) ==
    \E i \in 1..(Len(s) - Len(sub) + 1) : SubSeq(s, i, i + Len(sub) - 1) = sub

\* s.startswith(p)
StrStartsWith(s, p) == Len(s) >= Len(p) /\ SubSeq(s, 1, Len(p)) = p

\* str.isdigit()
StrIsDigit(s) == Len(s) > 0 /\ \A i \in 1..Len(s) : IsDigitCh(s[i])

\* len(s.split()): the number of maximal runs of non-blank characters.
StrSplitLen(s) ==
    Cardinality({i \in 1..Len(s) : s[i] # " " /\ (i = 1 \/ s[i-1] = " ")})

----------------------------------------------------------------------------
(* Cells, labels and values *)

NaN == [t |-> "nan", v |-> <<>>]

None == [t |-> "none", v |-> <<>>]

Str(s) == [t |-> "str", v |-> s]

Num(s) == [t |-> "num", v |-> s]

Ts(s) == [t |-> "ts", v |-> s]

Date(s) == [t |-> "date", v |-> s]

\* str(value)
PyStr(c) ==
    CASE c.t = "nan"  -> <<"n","a","n">>
      [] c.t = "none" -> <<"N","o","n","e">>
      [] c.t = "ts"   -> c.v \o <<" ","0","0",":","0","0",":","0","0">>
      [] OTHER        -> c.v

\* pd.isna(value)
IsNa(c) == c.t = "nan" \/ c.t = "none"

\* isinstance(val, (pd.Timestamp, datetime))
IsTimestamp(c) == c.t = "ts"

\* isinstance(val, (int, float)) and not pd.isna(val)
IsNumber(c) == c.t = "num"

----------------------------------------------------------------------------
(* The canonical schema and the synonym table *)

S_record_date == <<"r", "e", "c", "o", "r", "d", "_", "d", "a", "t", "e">>
S_ip_number == <<"i", "p", "_", "n", "u", "m", "b", "e", "r">>
S_mother_name == <<"m", "o", "t", "h", "e", "r", "_", "n", "a", "m", "e">>
S_admission_date == <<"a", "d", "m", "i", "s", "s", "i", "o", "n", "_", "d", "a", "t", "e">>
S_discharge_date == <<"d", "i", "s", "c", "h", "a", "r", "g", "e", "_", "d", "a", "t", "e">>
S_date_of_birth == <<"d", "a", "t", "e", "_", "o", "f", "_", "b", "i", "r", "t", "h">>
S_gender == <<"g", "e", "n", "d", "e", "r">>
S_mode_of_delivery ==
    <<"m", "o", "d", "e", "_", "o", "f", "_", "d", "e", "l", "i", "v", "e", "r", "y">>
S_child_name == <<"c", "h", "i", "l", "d", "_", "n", "a", "m", "e">>
S_father_name == <<"f", "a", "t", "h", "e", "r", "_", "n", "a", "m", "e">>
S_birth_notification_no ==
    <<"b", "i", "r", "t", "h", "_", "n", "o", "t", "i", "f", "i", "c", "a", "t", "i", "o", "n",
      "_", "n", "o">>

EXPECTED_COLUMNS ==
    << S_record_date,
       S_ip_number,
       S_mother_name,
       S_admission_date,
       S_discharge_date,
       S_date_of_birth,
       S_gender,
       S_mode_of_delivery,
       S_child_name,
       S_father_name,
       S_birth_notification_no >>

COLUMN_MAPPING ==
    { <<<<"d","a","t","e">>, S_record_date>>,
      <<<<"r","e","c","o","r","d","_","d","a","t","e">>, S_record_date>>,
      <<<<"d","a","t","e","_","r","e","c","o","r","d","e","d">>, S_record_date>>,
      <<<<"i","p","_","n","o">>, S_ip_number>>,
      <<<<"i","p",".","_","n","o">>, S_ip_number>>,
      <<<<"i","p","_","n","u","m","b","e","r">>, S_ip_number>>,
      <<<<"i","p","_","n","o",".">>, S_ip_number>>,
      <<<<"i","p","n","o">>, S_ip_number>>,
      <<<<"m","o","t","h","e","r","_","n","a","m","e">>, S_mother_name>>,
      <<<<"m","o","t","h","e","r","s","_","n","a","m","e">>, S_mother_name>>,
      <<<<"m","o","t","h","e","r">>, S_mother_name>>,
      <<<<"a","d","m","i","s","s","i","o","n","_","d","a","t","e">>, S_admission_date>>,
      <<<<"d","a","t","e","_","o","f","_","a","d","m","i","s","s","i","o","n">>, S_admission_date>>,
      <<<<"a","d","m","i","t","t","e","d","_","d","a","t","e">>, S_admission_date>>,
      <<<<"d","i","s","c","h","a","r","g","e","_","d","a","t","e">>, S_discharge_date>>,
      <<<<"d","a","t","e","_","o","f","_","d","i","s","c","h","a","r","g","e">>, S_discharge_date>>,
      <<<<"d","i","s","c","h","a","r","g","e","d","_","d","a","t","e">>, S_discharge_date>>,
      <<<<"d","a","t","e","_","o","f","_","b","i","r","t","h">>, S_date_of_birth>>,
      <<<<"b","i","r","t","h","_","d","a","t","e">>, S_date_of_birth>>,
      <<<<"d","o","b">>, S_date_of_birth>>,
      <<<<"g","e","n","d","e","r">>, S_gender>>,
      <<<<"s","e","x">>, S_gender>>,
      <<<<"m","o","d","e","_","o","f","_","d","e","l","i","v","e","r","y">>, S_mode_of_delivery>>,
      <<<<"d","e","l","i","v","e","r","y","_","m","o","d","e">>, S_mode_of_delivery>>,
      <<<<"d","e","l","i","v","e","r","y","_","m","e","t","h","o","d">>, S_mode_of_delivery>>,
      <<<<"c","h","i","l","d","_","n","a","m","e">>, S_child_name>>,
      <<<<"c","h","i","l","d","s","_","n","a","m","e">>, S_child_name>>,
      <<<<"b","a","b","y","_","n","a","m","e">>, S_child_name>>,
      <<<<"c","h","i","l","d">>, S_child_name>>,
      <<<<"f","a","t","h","e","r","_","n","a","m","e">>, S_father_name>>,
      <<<<"f","a","t","h","e","r","s","_","n","a","m","e">>, S_father_name>>,
      <<<<"f","a","t","h","e","r">>, S_father_name>>,
      <<<<"b","i","r","t","h","_","n","o","t","i","f","i","c","a","t","i","o","n","_","n","o">>, S_birth_notification_no>>,
      <<<<"n","o","t","i","f","i","c","a","t","i","o","n","_","n","o">>, S_birth_notification_no>>,
      <<<<"b","i","r","t","h","_","n","o","t","i","f","i","c","a","t","i","o","n">>, S_birth_notification_no>>,
      <<<<"n","o","t","i","f","i","c","a","t","i","o","n","_","n","u","m","b","e","r">>, S_birth_notification_no>>,
      <<<<"b","i","r","t","h","_","n","o","t","i","f","i","c","a","t","i","o","n","_","n","u","m","b","e","r">>, S_birth_notification_no>> }

----------------------------------------------------------------------------
(* Worksheets: the bounded family of inputs *)

MaxSheets == 2

MaxRows == 3

\* a clean header row: every label is a key of the synonym table (column 12 is not)
HeaderRow ==
    << Str(<<"D","a","t","e">>),
       Str(<<"I","P","."," ","N","O">>),
       Str(<<"M","o","t","h","e","r","'","s"," ","N","a","m","e">>),
       Str(<<"A","d","m","i","s","s","i","o","n"," ","D","a","t","e">>),
       Str(<<"D","i","s","c","h","a","r","g","e"," ","D","a","t","e">>),
       Str(<<"D","O","B">>),
       Str(<<"S","e","x">>),
       Str(<<"M","o","d","e"," ","o","f"," ","D","e","l","i","v","e","r","y">>),
       Str(<<"C","h","i","l","d","'","s"," ","N","a","m","e"," ">>),
       Str(<<"F","a","t","h","e","r"," ","N","a","m","e">>),
       Str(<<"B","i","r","t","h"," ","N","o","t","i","f","i","c","a","t","i","o","n"," ","N","o">>),
       Str(<<"R","e","m","a","r","k","s">>) >>

\* a header row with two labels for the admission date and three unknown labels
LooseHeaderRow ==
    << Str(<<"D","a","t","e">>),
       Str(<<"I","P","."," ","N","O">>),
       Str(<<"M","o","t","h","e","r">>),
       Str(<<"A","d","m","i","s","s","i","o","n"," ","D","a","t","e">>),
       Str(<<"D","a","t","e"," ","o","f"," ","A","d","m","i","s","s","i","o","n">>),
       Str(<<"B","i","r","t","h">>),
       Str(<<"S","e","x">>),
       Str(<<"M","o","d","e">>),
       Str(<<"C","h","i","l","d">>),
       Str(<<"F","a","t","h","e","r">>),
       Str(<<"R","e","f"," ","N","o">>),
       Str(<<"R","e","m","a","r","k","s">>) >>

\* a complete data row: typed dates, text, a numeric notification number
FullRow ==
    << Ts(<<"2","0","2","5","-","0","1","-","1","0">>),
       Str(<<"I","P","0","0","1">>),
       Str(<<"j","a","n","e"," ","d","o","e">>),
       Ts(<<"2","0","2","5","-","0","1","-","0","7">>),
       Ts(<<"2","0","2","5","-","0","1","-","0","9">>),
       Ts(<<"2","0","2","5","-","0","1","-","0","8">>),
       Str(<<"f">>),
       Str(<<"n","o","r","m","a","l">>),
       Str(<<"b","a","b","y"," ","d","o","e">>),
       Str(<<"j","o","h","n"," ","d","o","e">>),
       Num(<<"1","2","3","4","5">>),
       Str(<<"N","o","r","m","a","l"," ","p","r","o","g","r","e","s","s">>) >>

\* a data row without ip_number, born after the record date, unknown gender
NoIpRow ==
    << Ts(<<"2","0","2","5","-","0","1","-","0","5">>),
       NaN,
       Str(<<"M","a","r","y"," ","R","o","e">>),
       NaN,
       NaN,
       Ts(<<"2","0","2","5","-","0","1","-","0","9">>),
       Str(<<"X">>),
       Str(<<"W","a","t","e","r"," ","B","i","r","t","h">>),
       Str(<<"T","o","m"," ","R","o","e">>),
       Str(<<" ">>),
       Str(<<"B","N","7","7","7">>),
       NaN >>

\* a data row with text dates, a number in a date column and a 3-character notification number
ShortRow ==
    << Str(<<"0","5","/","0","1","/","2","0","2","5">>),
       Str(<<"I","P","9">>),
       Str(<<"A","n","n"," ","P","o","e">>),
       Num(<<"4","5","0","0","0">>),
       NaN,
       Str(<<"3","1","/","1","2","/","2","0","2","4">>),
       Str(<<"M","a","l","e">>),
       Str(<<"C","-","S","e","c","t","i","o","n">>),
       Str(<<"A","l">>),
       Str(<<"U","n","n","a","m","e","d">>),
       Str(<<"1","2","3">>),
       Str(<<"x">>) >>

\* a row without any value
BlankRow == [j \in 1..12 |-> NaN]

RowKinds == {"header", "loose", "full", "noip", "short", "blank"}

RowOf(kind) ==
    CASE kind = "header" -> HeaderRow
      [] kind = "loose"  -> LooseHeaderRow
      [] kind = "full"   -> FullRow
      [] kind = "noip"   -> NoIpRow
      [] kind = "short"  -> ShortRow
      [] kind = "other"  -> [FullRow EXCEPT ![11] = Num(<<"6","7","8","9","0">>)]
      [] kind = "third"  -> [FullRow EXCEPT ![11] = Str(<<"B","N","7","7","7">>)]
      [] kind = "anon"   -> [FullRow EXCEPT ![2] = NaN]
      [] kind = "odd"    -> [FullRow EXCEPT ![7] = Str(<<"X">>)]
      [] OTHER           -> BlankRow

\* Which of the twelve template columns a worksheet has, left to right: the
\* eleven canonical ones, those and a remarks column, the first eight, or
\* only child name, mother name and notification number.
Layouts ==
    { <<1, 2, 3, 4, 5, 6, 7, 8, 9, 10, 11>>,
      <<1, 2, 3, 4, 5, 6, 7, 8, 9, 10, 11, 12>>,
      <<1, 2, 3, 4, 5, 6, 7, 8>>,
      <<9, 3, 11>> }

\* A worksheet of the workbook: readable says whether pd.read_excel can read
\* it at all, layout and rows give its cells.
SheetDescs ==
    [readable : {TRUE}, layout : Layouts,
     rows : UNION {[1..n -> RowKinds] : n \in 0..MaxRows}]
    \cup {[readable |-> FALSE, layout |-> <<9, 3, 11>>, rows |-> <<>>]}

\* The worksheets of workbooks with several sheets are drawn from a smaller
\* family: eleven columns, with or without the clean header row, and up to
\* MaxWorkbookRows data rows of two kinds; a sheet that cannot be read; and
\* a sheet of three columns without a header.
MaxWorkbookRows == 2

WorkbookSheetDescs ==
    { [readable |-> TRUE, layout |-> <<1, 2, 3, 4, 5, 6, 7, 8, 9, 10, 11>>,
       rows |-> top \o data] :
         top \in {<<>>, <<"header">>},
         data \in UNION {[1..n -> {"full", "short"}] : n \in 0..MaxWorkbookRows} }
    \cup {[readable |-> FALSE, layout |-> <<9, 3, 11>>, rows |-> <<>>],
          [readable |-> TRUE, layout |-> <<9, 3, 11>>, rows |-> <<"full">>]}

\* The values tried in the gender cell of a varied row.
GenderCells ==
    { Str(<<"m">>),
      Str(<<"M">>),
      Str(<<" ","m","a","l","e"," ">>),
      Str(<<"M","A","L","E">>),
      Str(<<"f">>),
      Str(<<"F","e","m","a","l","e">>),
      Str(<<"o","t","h","e","r">>),
      Str(<<"O","T","H","E","R">>),
      Str(<<"X">>),
      Str(<<"m","a","l">>),
      Str(<<" ">>),
      NaN,
      Num(<<"1">>) }

\* The values tried in the Date and DOB cells of a varied row.
DateCells ==
    { Ts(<<"2","0","2","5","-","0","1","-","0","5">>),
      Ts(<<"2","0","2","5","-","0","1","-","0","9">>),
      Str(<<"0","5","/","0","1","/","2","0","2","5">>),
      Str(<<"1","2","/","3","1","/","2","0","2","4">>),
      Str(<<"3","1","/","0","2","/","2","0","2","5">>),
      Str(<<"s","o","o","n">>),
      Str(<<"t","o","d","a","y">>),
      Str(<<" ">>),
      Num(<<"4","5","0","0","0">>),
      NaN }

\* The values tried in the Mode of Delivery cell of a varied row.
DeliveryCells ==
    { Str(<<"n","o","r","m","a","l">>),
      Str(<<" ","N","O","R","M","A","L"," ">>),
      Str(<<"N","o","r","m">>),
      Str(<<"a","b","n","o","r","m","a","l">>),
      Str(<<"n","o","r","m","a","l"," ","s","v","d">>),
      Str(<<"c","-","s","e","c","t","i","o","n">>),
      Str(<<"W","a","t","e","r"," ","B","i","r","t","h">>),
      Str(<<" ">>),
      NaN,
      Num(<<"1">>) }

\* A complete data row with its Date, DOB, Sex and Mode of Delivery cells
\* replaced.
VariedRow(vary) ==
    [FullRow EXCEPT ![1] = vary.record_date, ![6] = vary.date_of_birth,
                    ![7] = vary.gender, ![8] = vary.mode_of_delivery]

\* The worksheets for the cleaning of single values: the clean header row
\* and one varied row beneath it, varied in its dates and gender or in its
\* mode of delivery.
CellSheetDescs ==
    { [readable |-> TRUE, layout |-> <<1, 2, 3, 4, 5, 6, 7, 8, 9, 10, 11>>,
       rows |-> <<"header", "varied">>, vary |-> v] :
         v \in [record_date : DateCells, date_of_birth : DateCells, gender : GenderCells,
                mode_of_delivery : {FullRow[8]}]
               \cup [record_date : {FullRow[1]}, date_of_birth : {FullRow[6]},
                     gender : {FullRow[7]}, mode_of_delivery : DeliveryCells] }

\* The worksheets uploaded: the clean header row and up to MaxBatch data rows:
\* complete rows with three different notification numbers, a complete row
\* without IP number, a complete row with an unknown gender.
MaxBatch == 3

UploadRowKinds == {"full", "other", "third", "anon", "odd"}

UploadSheetDescs ==
    { [readable |-> TRUE, layout |-> <<1, 2, 3, 4, 5, 6, 7, 8, 9, 10, 11>>,
       rows |-> <<"header">> \o data] :
         data \in UNION {[1..n -> UploadRowKinds] : n \in 0..MaxBatch} }

\* Row i of a worksheet, all twelve template columns.
RowCells(desc, i) ==
    IF desc.rows[i] = "varied" THEN VariedRow(desc.vary) ELSE RowOf(desc.rows[i])

CellsOf(desc) ==
    [i \in 1..Len(desc.rows) |->
        [j \in 1..Len(desc.layout) |-> RowCells(desc, i)[desc.layout[j]]]]

----------------------------------------------------------------------------
(* pandas: reading a worksheet into a frame *)

\* A frame: cols are the column labels, rows the rows in order, each with its
\* index label idx, its cells, and src, the 0-based row of the worksheet it
\* was read from (src is bookkeeping for the properties, pandas has no such
\* field).  NoFrame stands for the Python value None.
NoFrame == [isnone |-> TRUE, cols |-> <<>>, rows |-> <<>>]

Frame(cols, rows) == [isnone |-> FALSE, cols |-> cols, rows |-> rows]

\* DataFrame.empty
FrameEmpty(f) == Len(f.cols) = 0 \/ Len(f.rows) = 0

SetMax(S) == IF S = {} THEN 0 ELSE CHOOSE x \in S : \A y \in S : y <= x

SetMin(S) == CHOOSE x \in S : \A y \in S : x <= y

\* Decimal digits of n, 0 <= n <= 99.
NatStr(n) ==
    IF n < 10 THEN <<DigitChars[n + 1]>>
    ELSE <<DigitChars[(n \div 10) + 1], DigitChars[(n % 10) + 1]>>

\* The reader hands pandas the used range of the sheet: rows after the last
\* row with a value and columns after the last column with a value are not
\* part of it.
SheetData(desc) ==
    LET cells   == CellsOf(desc)
        width   == SetMax({j \in 1..Len(desc.layout) :
                              \E i \in 1..Len(cells) : cells[i][j].t # "nan"})
        lastRow == SetMax({i \in 1..Len(cells) :
                              \E j \in 1..Len(desc.layout) : cells[i][j].t # "nan"})
    IN  [i \in 1..lastRow |-> SubSeq(cells[i], 1, width)]

\* Column type inference: a column holding only numbers and missing values,
\* with at least one of each, becomes float64, so its numbers print with a
\* trailing ".0"; any other column keeps the cells as read.
InferColumn(data, j, c) ==
    IF /\ c.t = "num"
       /\ \A i \in 1..Len(data) : data[i][j].t \in {"num", "nan"}
       /\ \E i \in 1..Len(data) : data[i][j].t = "nan"
    THEN Num(c.v \o <<".", "0">>)
    ELSE c

InferRows(data) ==
    [i \in 1..Len(data) |->
        [j \in 1..Len(data[i]) |-> InferColumn(data, j, data[i][j])]]

\* Labels pandas makes of a header row: an empty cell becomes "Unnamed: j",
\* and a label seen n times before becomes "<label>.n".
HeaderNames(row) ==
    [j \in 1..Len(row) |->
        IF row[j].t = "nan"
        THEN Str(<<"U","n","n","a","m","e","d",":"," ">> \o NatStr(j - 1))
        ELSE row[j]]

MangleDupes(labels) ==
    [j \in 1..Len(labels) |->
        LET n == Cardinality({k \in 1..(j - 1) : labels[k] = labels[j]})
        IN  IF n = 0 THEN labels[j]
            ELSE Str(PyStr(labels[j]) \o <<".">> \o NatStr(n))]

\* pd.read_excel(xls, sheet_name, header=h) for h >= 0.  Frames of a sheet
\* that cannot be read, or that ends at or before row h, are modelled as the
\* empty frame: the caller treats an exception and an empty frame alike.
ReadExcelHeader(desc, h) ==
    LET data == SheetData(desc)
    IN  IF ~desc.readable \/ Len(data) <= h THEN Frame(<<>>, <<>>)
        ELSE LET body == InferRows(SubSeq(data, h + 2, Len(data)))
             IN  Frame(MangleDupes(HeaderNames(data[h + 1])),
                       [i \in 1..Len(body) |->
                           [idx |-> i - 1, src |-> h + i, cells |-> body[i]]])

\* pd.read_excel(xls, sheet_name, header=None): integer labels 0, 1, ...
ReadExcelRaw(desc) ==
    LET data == InferRows(SheetData(desc))
    IN  IF Len(data) = 0 THEN Frame(<<>>, <<>>)
        ELSE Frame([j \in 1..Len(data[1]) |-> Num(NatStr(j - 1))],
                   [i \in 1..Len(data) |->
                       [idx |-> i - 1, src |-> i - 1, cells |-> data[i]]])

----------------------------------------------------------------------------
(* Header resolution *)

\* has_meaningful_headers(columns)
has_meaningful_headers(columns) ==
    Cardinality({j \in 1..Len(columns) :
                    /\ columns[j].t = "str"
                    /\ Len(StrStrip(columns[j].v)) > 2
                    /\ ~StrContains(StrLower(columns[j].v),
                                    <<"u","n","n","a","m","e","d">>)}) >= 3

\* Method 1 and Method 3 of parse_excel_file: the frame read with row h as
\* header is taken when it is not empty and its labels are meaningful.
HeaderRowAccepted(desc, h) ==
    LET df_test == ReadExcelHeader(desc, h)
    IN  ~FrameEmpty(df_test) /\ has_meaningful_headers(df_test.cols)

HeaderRowMethod ==
    [h \in 0..3 |->
        CASE h = 0 -> "header_row_0"
          [] h = 1 -> "header_row_1"
          [] h = 2 -> "header_row_2"
          [] OTHER -> "header_row_3"]

\* Cells of one row counted by detect_and_parse_data.
DateCount(cells) == Cardinality({j \in 1..Len(cells) : IsTimestamp(cells[j])})

NumberCount(cells) == Cardinality({j \in 1..Len(cells) : IsNumber(cells[j])})

TextCount(cells) ==
    Cardinality({j \in 1..Len(cells) :
                    cells[j].t = "str" /\ Len(StrStrip(cells[j].v)) > 2})

\* Series.count(): the cells that are not missing.
NonNullCount(cells) == Cardinality({j \in 1..Len(cells) : ~IsNa(cells[j])})

\* EXPECTED_COLUMNS[:n], then extra_column_i for the columns past the 11th.
AssignedColumns(n) ==
    [j \in 1..n |->
        IF j <= Len(EXPECTED_COLUMNS) THEN Str(EXPECTED_COLUMNS[j])
        ELSE Str(<<"e","x","t","r","a","_","c","o","l","u","m","n","_">>
                 \o NatStr(j - 1))]

\* reset_index(drop=True)
ResetIndex(rows) ==
    [i \in 1..Len(rows) |-> [rows[i] EXCEPT !.idx = i - 1]]

\* Method A: row 0 holds at least two dates and a number.
MethodA_Applies(df_raw) ==
    /\ Len(df_raw.rows) > 0
    /\ DateCount(df_raw.rows[1].cells) >= 2
    /\ NumberCount(df_raw.rows[1].cells) >= 1

MethodA_Frame(df_raw) ==
    Frame(AssignedColumns(Len(df_raw.cols)), ResetIndex(df_raw.rows))

\* Method B: the rows among the first five that look like headers and have
\* rows beneath (0-based row numbers).
LooksLikeHeaders(cells) ==
    TextCount(cells) >= 4 /\ DateCount(cells) <= 1 /\ NumberCount(cells) <= 2

MethodB_Rows(df_raw) ==
    {r \in 0..(Len(df_raw.rows) - 1) :
        /\ r < 5
        /\ LooksLikeHeaders(df_raw.rows[r + 1].cells)
        /\ r + 1 < Len(df_raw.rows)}

MethodB_Frame(df_raw, r) ==
    Frame(df_raw.rows[r + 1].cells,
          ResetIndex(SubSeq(df_raw.rows, r + 2, Len(df_raw.rows))))

DetectedMethod ==
    [r \in 0..4 |->
        CASE r = 0 -> "detected_headers_row_0"
          [] r = 1 -> "detected_headers_row_1"
          [] r = 2 -> "detected_headers_row_2"
          [] r = 3 -> "detected_headers_row_3"
          [] OTHER -> "detected_headers_row_4"]

\* Method C: at least 8 columns; the data starts at the first of the first
\* five rows with 5 or more values, at row 0 when there is none.
MinColumns == 8

MinNonNull == 5

MethodC_Start(df_raw) ==
    LET rich == {r \in 0..(Len(df_raw.rows) - 1) :
                    r < 5 /\ NonNullCount(df_raw.rows[r + 1].cells) >= MinNonNull}
    IN  IF rich = {} THEN 0 ELSE SetMin(rich)

\* Assigning EXPECTED_COLUMNS[:n] as labels of a frame with more than 11
\* columns raises (length mismatch).
MethodC_Raises(df_raw) == Len(df_raw.cols) > Len(EXPECTED_COLUMNS)

MethodC_Frame(df_raw) ==
    Frame(AssignedColumns(Len(df_raw.cols)),
          ResetIndex(SubSeq(df_raw.rows, MethodC_Start(df_raw) + 1, Len(df_raw.rows))))

AssumedMethod ==
    [r \in 0..4 |->
        CASE r = 0 -> "assumed_headers_from_row_0"
          [] r = 1 -> "assumed_headers_from_row_1"
          [] r = 2 -> "assumed_headers_from_row_2"
          [] r = 3 -> "assumed_headers_from_row_3"
          [] OTHER -> "assumed_headers_from_row_4"]

\* detect_and_parse_data(df_raw): the frame and method it returns, whether it
\* raised instead, and the methods it went through, in order.
detect_and_parse_data(df_raw) ==
    IF MethodA_Applies(df_raw)
    THEN [df |-> MethodA_Frame(df_raw), method |-> "data_as_first_row",
          raised |-> FALSE, tried |-> <<"A">>]
    ELSE IF MethodB_Rows(df_raw) # {}
    THEN LET r == SetMin(MethodB_Rows(df_raw))
         IN  [df |-> MethodB_Frame(df_raw, r), method |-> DetectedMethod[r],
              raised |-> FALSE, tried |-> <<"A", "B">>]
    ELSE IF Len(df_raw.cols) >= MinColumns
    THEN IF MethodC_Raises(df_raw)
         THEN [df |-> NoFrame, method |-> "failed",
               raised |-> TRUE, tried |-> <<"A", "B", "C">>]
         ELSE [df |-> MethodC_Frame(df_raw),
               method |-> AssumedMethod[MethodC_Start(df_raw)],
               raised |-> FALSE, tried |-> <<"A", "B", "C">>]
    ELSE [df |-> NoFrame, method |-> "failed",
          raised |-> FALSE, tried |-> <<"A", "B", "C">>]

----------------------------------------------------------------------------
(* Column normalization: clean_and_standardize_dataframe *)

NormalizeLabel_KeepsSpaces(col) ==
    StrRemoveCh(StrRemoveCh(StrLower(StrStrip(col)), "'"), "\"")

\* col.strip().lower().replace(' ', '_').replace("'", "").replace('"', '')
NormalizeLabel(col) ==
    StrRemoveCh(StrRemoveCh(StrReplaceCh(StrLower(StrStrip(col)), " ", "_"), "'"), "\"")

\* The value COLUMN_MAPPING gives a key, the label itself when it is no key.
MapLabel(col) ==
    IF \E p \in COLUMN_MAPPING : p[1] = col
    THEN (CHOOSE p \in COLUMN_MAPPING : p[1] = col)[2]
    ELSE col

\* Lines 231-296: labels to str, normalized, renamed by COLUMN_MAPPING.
StandardizeColumns(df) ==
    Frame([j \in 1..Len(df.cols) |-> Str(MapLabel(NormalizeLabel(PyStr(df.cols[j]))))],
          df.rows)

HasColumn(cols, name) == \E j \in 1..Len(cols) : cols[j].v = name

required_fields ==
    << S_record_date, S_ip_number, S_mother_name,
       S_date_of_birth, S_child_name, S_birth_notification_no >>

missing_required(cols) ==
    {i \in 1..Len(required_fields) : ~HasColumn(cols, required_fields[i])}

\* The labels are strings by now, so of the three tests only isdigit() and
\* startswith('Unnamed') can hold.
non_meaningful_headers(cols) ==
    \E j \in 1..Len(cols) :
        \/ StrStartsWith(cols[j].v, <<"U","n","n","a","m","e","d">>)
        \/ StrIsDigit(cols[j].v)

PositionalApplies(df) ==
    /\ missing_required(df.cols) # {} \/ non_meaningful_headers(df.cols)
    /\ Len(df.cols) >= Len(EXPECTED_COLUMNS)

\* position_mapping is a dict keyed by the labels of the first 11 columns: a
\* label that occurs more than once among them keeps the name of its last
\* position, and rename() gives that name to every column with the label.
PositionName(cols, label) ==
    EXPECTED_COLUMNS[SetMax({i \in 1..Len(EXPECTED_COLUMNS) : cols[i] = label})]

PositionalColumns(cols) ==
    [j \in 1..Len(cols) |->
        IF \E i \in 1..Len(EXPECTED_COLUMNS) : cols[i] = cols[j]
        THEN Str(PositionName(cols, cols[j]))
        ELSE cols[j]]

\* Lines 298-338: NoFrame when the function returns None here.
PositionalMapping(df) ==
    IF ~PositionalApplies(df) THEN df
    ELSE LET cols == PositionalColumns(df.cols)
         IN  IF missing_required(cols) # {} THEN NoFrame ELSE Frame(cols, df.rows)

IsExpected(name) == \E i \in 1..Len(EXPECTED_COLUMNS) : EXPECTED_COLUMNS[i] = name

\* df.iloc[:3, j].dropna().astype(str).str.lower(): a column of nothing but
\* timestamps is datetime64 and prints as the date alone, a timestamp in a
\* mixed column prints with its time of day.
SampleValues(df, j) ==
    LET alldates == \A i \in 1..Len(df.rows) : df.rows[i].cells[j].t \in {"ts", "nan"}
    IN  {StrLower(IF alldates THEN df.rows[i].cells[j].v ELSE PyStr(df.rows[i].cells[j])) :
            i \in {k \in 1..Len(df.rows) : k <= 3 /\ ~IsNa(df.rows[k].cells[j])}}

GenderWords ==
    { <<"m","a","l","e">>, <<"f","e","m","a","l","e">>, <<"m">>, <<"f">>,
      <<"o","t","h","e","r">> }

DeliveryWords ==
    { <<"c","a","e","s","e","r">>, <<"n","o","r","m","a","l">>,
      <<"s","e","c","t","i","o","n">>, <<"d","e","l","i","v","e","r","y">>,
      <<"v","a","c","u","u","m">>, <<"f","o","r","c","e","p","s">>,
      <<"b","r","e","e","c","h">> }

\* The name the content of column j suggests for the label col, given the
\* labels cols the frame has at that point; col itself when none.
SniffedName(df, cols, j, col) ==
    LET sample == SampleValues(df, j)
    IN  IF \E val \in sample : val \in GenderWords THEN S_gender
        ELSE IF \E val \in sample : \E word \in DeliveryWords : StrContains(val, word)
        THEN S_mode_of_delivery
        ELSE IF \E val \in sample : StrSplitLen(val) >= 2
        THEN IF ~HasColumn(cols, S_mother_name) THEN S_mother_name
             ELSE IF ~HasColumn(cols, S_child_name) THEN S_child_name
             ELSE IF ~HasColumn(cols, S_father_name) THEN S_father_name
             ELSE col
        ELSE IF /\ \E val \in sample : Len(val) >= 4 /\ StrIsDigit(val)
                /\ ~HasColumn(cols, S_birth_notification_no)
        THEN S_birth_notification_no
        ELSE col

RenameLabel(cols, old, new) ==
    [j \in 1..Len(cols) |-> IF cols[j].v = old THEN Str(new) ELSE cols[j]]

\* Lines 340-367: the loop runs over the labels the frame had when it
\* started (orig) and renames in the frame as it goes; cols are the labels
\* after the first j-1 rounds.
RECURSIVE SniffFrom(_, _, _, _)
SniffFrom(df, orig, cols, j) ==
    IF j > Len(orig) THEN cols
    ELSE IF IsExpected(orig[j].v) THEN SniffFrom(df, orig, cols, j + 1)
    ELSE SniffFrom(df, orig,
                   RenameLabel(cols, orig[j].v, SniffedName(df, cols, j, orig[j].v)),
                   j + 1)

ContentMapping(df) == Frame(SniffFrom(df, df.cols, df.cols, 1), df.rows)

\* df.dropna(how='all'): the rows keep their index labels.
DropEmptyRows(df) ==
    Frame(df.cols,
          SelectSeq(df.rows, LAMBDA r : \E j \in 1..Len(r.cells) : ~IsNa(r.cells[j])))

\* Lines 340-375: NoFrame when the function returns None at its end.
FinishCleaning(df) ==
    LET out == DropEmptyRows(ContentMapping(df))
    IN  IF FrameEmpty(out) THEN NoFrame ELSE out

\* clean_and_standardize_dataframe(df, parsing_method)
clean_and_standardize_dataframe(df) ==
    LET mapped == PositionalMapping(StandardizeColumns(df))
    IN  IF mapped.isnone THEN NoFrame ELSE FinishCleaning(mapped)

----------------------------------------------------------------------------
(* Record validation and cleaning *)

\* row.to_dict(): one key per distinct label; of several columns with the
\* same label the last one gives the value.
RowToDict(cols, cells) ==
    [k \in {cols[j].v : j \in 1..Len(cols)} |->
        cells[SetMax({j \in 1..Len(cols) : cols[j].v = k})]]

\* record.get(field)
Get(record, field) == IF field \in DOMAIN record THEN record[field] ELSE None

\* Python truthiness of a value of a record.
Truthy(c) == c.t # "none" /\ ~(c.t = "str" /\ c.v = <<>>)

\* pd.isna(value) or value == 'nan' or value == '' or str(value).strip() == ''
IsNullValue(c) ==
    \/ IsNa(c)
    \/ c.t = "str" /\ c.v = <<"n","a","n">>
    \/ StrStrip(PyStr(c)) = <<>>

TwoDigits(s, i) == 10 * DigitVal(s[i]) + DigitVal(s[i + 1])

\* The wall clock: the day on which parse_excel_file is running.
VARIABLE today

\* The number of days of a month of the Gregorian calendar.
DaysInMonth(month, year) ==
    IF month \in {4, 6, 9, 11} THEN 30
    ELSE IF month # 2 THEN 31
    ELSE IF year % 4 = 0 /\ (year % 100 # 0 \/ year % 400 = 0) THEN 29
    ELSE 28

\* pd.to_datetime(text, dayfirst=True).date() for texts of the shape
\* DD/MM/YYYY: day first, month first when only that reading is a date.
\* The texts "today" and "now" give the day of the clock.  Any other text of
\* the modelled sheets is no date: parsing it raises, which the caller turns
\* into None.
ToDate(s) ==
    IF s \in {<<"t","o","d","a","y">>, <<"n","o","w">>} THEN Date(today)
    ELSE IF /\ Len(s) = 10
       /\ s[3] = "/" /\ s[6] = "/"
       /\ \A i \in {1, 2, 4, 5, 7, 8, 9, 10} : IsDigitCh(s[i])
    THEN LET a == TwoDigits(s, 1)
             b == TwoDigits(s, 4)
             year == SubSeq(s, 7, 10)
             y    == 100 * TwoDigits(s, 7) + TwoDigits(s, 9)
         IN  IF b \in 1..12 /\ a \in 1..DaysInMonth(b, y)
             THEN Date(year \o <<"-">> \o SubSeq(s, 4, 5) \o <<"-">> \o SubSeq(s, 1, 2))
             ELSE IF a \in 1..12 /\ b \in 1..DaysInMonth(a, y)
             THEN Date(year \o <<"-">> \o SubSeq(s, 1, 2) \o <<"-">> \o SubSeq(s, 4, 5))
             ELSE None
    ELSE None

date_fields == {S_record_date, S_admission_date, S_discharge_date, S_date_of_birth}

text_fields == {S_gender, S_mode_of_delivery, S_child_name, S_father_name, S_mother_name}

\* Lines 391-402: a text is parsed, a timestamp gives its date, a value of
\* any other type is left as it is.
CleanDate(c) ==
    CASE c.t = "str" -> ToDate(c.v)
      [] c.t = "ts"  -> Date(c.v)
      [] OTHER       -> c

CleanText_DefaultsToNormal(field, c) ==
    LET text == StrTitle(StrStrip(PyStr(c)))
    IN  IF /\ field = S_father_name
           /\ \/ StrStartsWith(StrLower(text), <<"u","n","n","a","m","e","d">>)
              \/ Len(text) < 2
        THEN None
        ELSE IF /\ field = S_mode_of_delivery
                /\ text \notin {<<"C","-","S","e","c","t","i","o","n">>,
                                <<"V","a","c","u","u","m">>, <<"F","o","r","c","e","p","s">>,
                                <<"B","r","e","e","c","h">>}
        THEN Str(<<"N","o","r","m","a","l">>)
        ELSE Str(text)

\* Lines 404-411
CleanText(field, c) ==
    LET text == StrTitle(StrStrip(PyStr(c)))
    IN  IF /\ field = S_father_name
           /\ \/ StrStartsWith(StrLower(text), <<"u","n","n","a","m","e","d">>)
              \/ Len(text) < 2
        THEN None
        ELSE Str(text)

\* Lines 413-418
CleanId(c) == Str(StrStrip(PyStr(c)))

CleanGender_CaseSensitive(c) ==
    IF ~Truthy(c) THEN c
    ELSE IF c.v \in {<<"M">>, <<"M","A","L","E">>} THEN Str(<<"M","a","l","e">>)
    ELSE IF c.v \in {<<"F">>, <<"F","E","M","A","L","E">>} THEN Str(<<"F","e","m","a","l","e">>)
    ELSE IF c.v = <<"O","T","H","E","R">> THEN Str(<<"O","t","h","e","r">>)
    ELSE None

\* Lines 420-431
CleanGender(c) ==
    IF ~Truthy(c) THEN c
    ELSE LET gender == StrUpper(c.v)
         IN  IF gender \in {<<"M">>, <<"M","A","L","E">>} THEN Str(<<"M","a","l","e">>)
             ELSE IF gender \in {<<"F">>, <<"F","E","M","A","L","E">>}
             THEN Str(<<"F","e","m","a","l","e">>)
             ELSE IF gender = <<"O","T","H","E","R">> THEN Str(<<"O","t","h","e","r">>)
             ELSE None

CleanValue(field, c) ==
    IF IsNullValue(c) THEN None
    ELSE IF field \in date_fields THEN CleanDate(c)
    ELSE IF field = S_gender THEN CleanGender(CleanText(field, c))
    ELSE IF field \in text_fields THEN CleanText(field, c)
    ELSE IF field \in {S_ip_number, S_birth_notification_no} THEN CleanId(c)
    ELSE c

\* validate_and_clean_record(record): no step of it raises on the values a
\* frame can hold, so it always returns the cleaned record.
validate_and_clean_record(record) ==
    [k \in DOMAIN record |-> CleanValue(k, record[k])]

MinNotificationLen == 4

MinNameLen == 2

\* Lines 444-448
FieldPresent(record, field) ==
    LET value == Get(record, field)
    IN  Truthy(value) /\ ~(value.t = "str" /\ StrStrip(value.v) = <<>>)

is_record_complete_NoLength(record) ==
    /\ FieldPresent(record, S_child_name)
    /\ FieldPresent(record, S_birth_notification_no)
    /\ FieldPresent(record, S_mother_name)

\* is_record_complete(record)
is_record_complete(record) ==
    /\ FieldPresent(record, S_child_name)
    /\ FieldPresent(record, S_birth_notification_no)
    /\ FieldPresent(record, S_mother_name)
    /\ Len(StrStrip(PyStr(Get(record, S_birth_notification_no)))) >= MinNotificationLen
    /\ Len(StrStrip(PyStr(Get(record, S_mother_name)))) >= MinNameLen
    /\ Len(StrStrip(PyStr(Get(record, S_child_name)))) >= MinNameLen

----------------------------------------------------------------------------
(* parse_excel_file as a state machine *)

VARIABLES
    openable,         \* pd.ExcelFile can open the bytes
    nsheets,          \* len(xls.sheet_names)
    pc,               \* where parse_excel_file is
    sheet,            \* how many sheets the loop has started
    sheet_name,       \* the worksheet being processed
    df,               \* the frame of the sheet, NoFrame for None
    parsing_method,
    original_columns, \* the labels of df when cleaning starts (logged at line 81)
    tried,            \* the header methods attempted on the sheet, in order
    rowi,             \* position of the row loop in df.rows
    sheet_records,    \* records of the sheet so far
    sheet_src,        \* <<sheet, worksheet row>> of each of them
    all_records,      \* records of the workbook so far
    all_src,          \* <<sheet, worksheet row>> of each of them
    done_sheets,      \* one entry per sheet the loop is through with
    result,           \* "none", "ok" (returned all_records) or "error" (ValueError)
    sheets,           \* the worksheets of the workbook the loop has opened so far
    earlier,          \* the outcomes of the calls already made on the workbook
    dry_run,          \* upload_excel_file: the query parameter
    session,          \* upload_excel_file: db is a Session (FALSE: db is None)
    store,            \* birth_notification_no of the rows of table birth_records
    row_number,       \* upload_excel_file: the row the loop is at
    processed_notification_nos,
    created_records,
    validation_errors,
    duplicate_errors,
    database_errors,
    errors,           \* upload_excel_file: the rows of other_errors
    response,         \* "none", "summary" or the HTTP error of the request
    table,            \* the rows of birth_records by id, for the requests by id
    requests          \* the requests of the record endpoints that are under way

workbook == << openable, nsheets >>

calls == << today, earlier >>

database == << dry_run, session, store >>

api == << table, requests >>

request ==
    << row_number, processed_notification_nos, created_records, validation_errors,
       duplicate_errors, database_errors, errors, response >>

current == << sheet, sheet_name >>

resolution == << df, parsing_method, tried >>

rowloop == << rowi, sheet_records, sheet_src >>

collected == << all_records, all_src >>

vars ==
    << openable, nsheets, pc, sheet, sheet_name, df, parsing_method, original_columns,
       tried, rowi, sheet_records, sheet_src, all_records, all_src, done_sheets, result,
       sheets, today, earlier, dry_run, session, store, row_number,
       processed_notification_nos, created_records, validation_errors, duplicate_errors,
       database_errors, errors, response, table, requests >>

FirstDay == <<"2","0","2","5","-","0","1","-","1","0">>

NextDay == <<"2","0","2","5","-","0","1","-","1","1">>

NoSheet == [readable |-> FALSE, layout |-> <<9, 3, 11>>, rows |-> <<>>]

InitRun ==
    /\ openable \in BOOLEAN
    /\ pc = "start"
    /\ sheet = 0
    /\ sheet_name = NoSheet
    /\ df = NoFrame
    /\ parsing_method = "unknown"
    /\ original_columns = <<>>
    /\ tried = <<>>
    /\ rowi = 1
    /\ sheet_records = <<>>
    /\ sheet_src = <<>>
    /\ all_records = <<>>
    /\ all_src = <<>>
    /\ done_sheets = <<>>
    /\ result = "none"
    /\ sheets = <<>>
    /\ today = FirstDay
    /\ earlier = <<>>
    /\ row_number = 0
    /\ processed_notification_nos = {}
    /\ created_records = <<>>
    /\ validation_errors = <<>>
    /\ duplicate_errors = <<>>
    /\ database_errors = <<>>
    /\ errors = <<>>
    /\ response = "none"
    /\ requests = <<>>

\* A workbook of one worksheet, of any kind.
Init ==
    InitRun /\ nsheets = 1 /\ dry_run = FALSE /\ session = TRUE /\ store = {} /\ table = <<>>

\* A workbook of up to MaxSheets worksheets.
InitWorkbook ==
    /\ InitRun /\ nsheets \in 1..MaxSheets
    /\ dry_run = FALSE /\ session = TRUE /\ store = {} /\ table = <<>>

\* Line 18: opening the workbook; a failure leaves through lines 124-126.
Open ==
    /\ pc = "start"
    /\ IF openable
       THEN pc' = "next_sheet" /\ result' = result
       ELSE pc' = "done" /\ result' = "error"
    /\ UNCHANGED << workbook, api, calls, database, request,
                    sheets, current, resolution, original_columns, rowloop,
                    collected, done_sheets >>

\* Lines 36-41: the loop takes the next sheet of the workbook.
NextSheet(descs) ==
    /\ pc = "next_sheet"
    /\ sheet < nsheets
    /\ \E desc \in descs :
          /\ sheet < Len(sheets) => desc = sheets[sheet + 1]
          /\ sheet_name' = desc
          /\ sheets' = IF sheet < Len(sheets) THEN sheets ELSE Append(sheets, desc)
    /\ sheet' = sheet + 1
    /\ df' = NoFrame
    /\ parsing_method' = "unknown"
    /\ tried' = <<>>
    /\ pc' = "method1"
    /\ UNCHANGED << workbook, api, calls, database, request,
                    original_columns, rowloop, collected, done_sheets, result >>

\* Lines 43-51
Method1 ==
    /\ pc = "method1"
    /\ tried' = Append(tried, "1")
    /\ IF HeaderRowAccepted(sheet_name, 0)
       THEN df' = ReadExcelHeader(sheet_name, 0) /\ parsing_method' = "header_row_0"
       ELSE UNCHANGED << df, parsing_method >>
    /\ pc' = "method2"
    /\ UNCHANGED << workbook, api, calls, database, request,
                    sheets, current, original_columns, rowloop, collected,
                    done_sheets, result >>

Method2_IgnoresEarlier ==
    /\ pc = "method2"
    /\ IF sheet_name.readable
       THEN LET r == detect_and_parse_data(ReadExcelRaw(sheet_name))
            IN  /\ tried' = tried \o r.tried
                /\ IF r.raised
                   THEN UNCHANGED << df, parsing_method >>
                   ELSE df' = r.df /\ parsing_method' = r.method
       ELSE UNCHANGED << df, parsing_method, tried >>
    /\ pc' = "method3"
    /\ UNCHANGED << workbook, api, calls, database, request,
                    sheets, current, original_columns, rowloop, collected,
                    done_sheets, result >>

\* Lines 53-61: a sheet that cannot be read raises before any detection; an
\* exception of detect_and_parse_data leaves df and parsing_method as they
\* were.
Method2 ==
    /\ pc = "method2"
    /\ IF df.isnone /\ sheet_name.readable
       THEN LET r == detect_and_parse_data(ReadExcelRaw(sheet_name))
            IN  /\ tried' = tried \o r.tried
                /\ IF r.raised
                   THEN UNCHANGED << df, parsing_method >>
                   ELSE df' = r.df /\ parsing_method' = r.method
       ELSE UNCHANGED << df, parsing_method, tried >>
    /\ pc' = "method3"
    /\ UNCHANGED << workbook, api, calls, database, request,
                    sheets, current, original_columns, rowloop, collected,
                    done_sheets, result >>

Method3_Rows == {h \in 1..3 : HeaderRowAccepted(sheet_name, h)}

\* Lines 63-74
Method3 ==
    /\ pc = "method3"
    /\ IF df.isnone
       THEN /\ tried' = Append(tried, "3")
            /\ IF Method3_Rows # {}
               THEN /\ df' = ReadExcelHeader(sheet_name, SetMin(Method3_Rows))
                    /\ parsing_method' = HeaderRowMethod[SetMin(Method3_Rows)]
               ELSE UNCHANGED << df, parsing_method >>
       ELSE UNCHANGED << df, parsing_method, tried >>
    /\ pc' = "parsed"
    /\ UNCHANGED << workbook, api, calls, database, request,
                    sheets, current, original_columns, rowloop, collected,
                    done_sheets, result >>

\* What done_sheets keeps of a sheet: whether it could be read, whether it
\* had no cells, whether a header method gave it a frame, whether it was
\* skipped, and the number of records it gave.
SheetEntry(resolved, skipped, n) ==
    [readable |-> sheet_name.readable,
     empty    |-> SheetData(sheet_name) = <<>>,
     resolved |-> resolved,
     skipped  |-> skipped,
     n        |-> n]

SkipSheet_Breaks(resolved) ==
    /\ done_sheets' = Append(done_sheets, SheetEntry(resolved, TRUE, 0))
    /\ pc' = "done"
    /\ UNCHANGED rowloop

\* `continue` of the sheet loop, lines 78 and 88.
SkipSheet(resolved) ==
    /\ done_sheets' = Append(done_sheets, SheetEntry(resolved, TRUE, 0))
    /\ pc' = "next_sheet"
    /\ UNCHANGED rowloop

\* Lines 76-84 and 231-296
Standardize ==
    /\ pc = "parsed"
    /\ IF df.isnone \/ FrameEmpty(df)
       THEN SkipSheet(FALSE) /\ UNCHANGED << df, original_columns >>
       ELSE /\ original_columns' = df.cols
            /\ df' = StandardizeColumns(df)
            /\ pc' = "positional"
            /\ UNCHANGED << rowloop, done_sheets >>
    /\ UNCHANGED << workbook, api, calls, database, request,
                    sheets, current, parsing_method, tried, collected, result >>

\* Lines 298-338, and 86-88 when the function returned None
Positional ==
    /\ pc = "positional"
    /\ df' = PositionalMapping(df)
    /\ IF df'.isnone
       THEN SkipSheet(TRUE)
       ELSE pc' = "content" /\ UNCHANGED << rowloop, done_sheets >>
    /\ UNCHANGED << workbook, api, calls, database, request,
                    sheets, current, parsing_method, original_columns, tried,
                    collected, result >>

\* Lines 340-375 and 86-93
Content ==
    /\ pc = "content"
    /\ df' = FinishCleaning(df)
    /\ IF df'.isnone
       THEN SkipSheet(TRUE)
       ELSE /\ pc' = "rows"
            /\ rowi' = 1
            /\ sheet_records' = <<>>
            /\ sheet_src' = <<>>
            /\ UNCHANGED done_sheets
    /\ UNCHANGED << workbook, api, calls, database, request,
                    sheets, current, parsing_method, original_columns, tried,
                    collected, result >>


ProcessRow_StopsAtBadRow ==
    /\ pc = "rows"
    /\ rowi <= Len(df.rows)
    /\ LET row == df.rows[rowi]
           validated_record == validate_and_clean_record(RowToDict(df.cols, row.cells))
       IN  IF DOMAIN validated_record # {} /\ is_record_complete(validated_record)
           THEN /\ sheet_records' = Append(sheet_records, validated_record)
                /\ sheet_src' = Append(sheet_src, <<sheet, row.src>>)
                /\ rowi' = rowi + 1
           ELSE /\ UNCHANGED << sheet_records, sheet_src >>
                /\ rowi' = Len(df.rows) + 1
    /\ UNCHANGED << workbook, api, calls, database, request,
                    sheets, pc, current, resolution, original_columns, collected,
                    done_sheets, result >>

\* Lines 94-109: one round of the row loop.
ProcessRow ==
    /\ pc = "rows"
    /\ rowi <= Len(df.rows)
    /\ LET row == df.rows[rowi]
           validated_record == validate_and_clean_record(RowToDict(df.cols, row.cells))
       IN  IF DOMAIN validated_record # {} /\ is_record_complete(validated_record)
           THEN /\ sheet_records' = Append(sheet_records, validated_record)
                /\ sheet_src' = Append(sheet_src, <<sheet, row.src>>)
           ELSE UNCHANGED << sheet_records, sheet_src >>
    /\ rowi' = rowi + 1
    /\ UNCHANGED << workbook, api, calls, database, request,
                    sheets, pc, current, resolution, original_columns, collected,
                    done_sheets, result >>

Extend_Prepends(records, more) == more \o records

\* all_records.extend(sheet_records)
Extend(records, more) == records \o more

\* Lines 111-112: the row loop is over.
EndSheet ==
    /\ pc = "rows"
    /\ rowi > Len(df.rows)
    /\ all_records' = Extend(all_records, sheet_records)
    /\ all_src' = Extend(all_src, sheet_src)
    /\ done_sheets' = Append(done_sheets, SheetEntry(TRUE, FALSE, Len(sheet_records)))
    /\ pc' = "next_sheet"
    /\ UNCHANGED << workbook, api, calls, database, request,
                    sheets, current, resolution, original_columns, rowloop, result >>

Finish_NeverRaises ==
    /\ pc = "next_sheet"
    /\ sheet = nsheets
    /\ result' = "ok"
    /\ pc' = "done"
    /\ UNCHANGED << workbook, api, calls, database, request,
                    sheets, current, resolution, original_columns, rowloop,
                    collected, done_sheets >>

\* Lines 118-126: after the last sheet.
Finish ==
    /\ pc = "next_sheet"
    /\ sheet = nsheets
    /\ result' = IF all_records = <<>> THEN "error" ELSE "ok"
    /\ pc' = "done"
    /\ UNCHANGED << workbook, api, calls, database, request,
                    sheets, current, resolution, original_columns, rowloop,
                    collected, done_sheets >>

\* parse_excel_file is called once more on the same bytes, the same day or a
\* day later: its locals start afresh (lines 18-19, 36-41), nothing of the
\* module outlives a call.
Rerun ==
    /\ pc = "done"
    /\ earlier = <<>>
    /\ earlier' = << [result |-> result, records |-> all_records] >>
    /\ today' \in {today, NextDay}
    /\ pc' = "start"
    /\ sheet' = 0
    /\ sheet_name' = NoSheet
    /\ df' = NoFrame
    /\ parsing_method' = "unknown"
    /\ original_columns' = <<>>
    /\ tried' = <<>>
    /\ rowi' = 1
    /\ sheet_records' = <<>>
    /\ sheet_src' = <<>>
    /\ all_records' = <<>>
    /\ all_src' = <<>>
    /\ done_sheets' = <<>>
    /\ result' = "none"
    /\ UNCHANGED << workbook, api, sheets, database, request >>

Next ==
    \/ Open
    \/ NextSheet(SheetDescs)
    \/ Method1
    \/ Method2
    \/ Method3
    \/ Standardize
    \/ Positional
    \/ Content
    \/ ProcessRow
    \/ EndSheet
    \/ Finish

Spec == Init /\ [][Next]_vars

NextWorkbook ==
    \/ Open
    \/ NextSheet(WorkbookSheetDescs)
    \/ Method1
    \/ Method2
    \/ Method3
    \/ Standardize
    \/ Positional
    \/ Content
    \/ ProcessRow
    \/ EndSheet
    \/ Finish

SpecWorkbook == InitWorkbook /\ [][NextWorkbook]_vars

NextCells ==
    \/ Open
    \/ NextSheet(CellSheetDescs)
    \/ Method1
    \/ Method2
    \/ Method3
    \/ Standardize
    \/ Positional
    \/ Content
    \/ ProcessRow
    \/ EndSheet
    \/ Finish

\* A workbook of one worksheet with one varied data row.
SpecCells == Init /\ [][NextCells]_vars

NextTwice ==
    \/ NextCells
    \/ Rerun

\* Two calls on the same workbook of one worksheet with one varied data row.
SpecTwice == Init /\ [][NextTwice]_vars

----------------------------------------------------------------------------
(* upload_excel_file: the parsed records are created in the database *)

\* birth_records.py line 207-208: the required fields a record lacks.
missing_fields(record_data) ==
    {field \in {S_record_date, S_ip_number, S_date_of_birth, S_child_name,
                S_birth_notification_no} : ~Truthy(Get(record_data, field))}

\* BirthRecordCreate(**record_data) is accepted (schemas/birth_record.py
\* lines 6-36): three dates, an optional discharge date, seven texts, a known
\* gender and mode of delivery, a mother name of two characters.
BirthRecordCreate_Valid(record_data) ==
    /\ \A field \in {S_record_date, S_admission_date, S_date_of_birth} :
          Get(record_data, field).t = "date"
    /\ Get(record_data, S_discharge_date).t \in {"date", "none"}
    /\ \A field \in {S_ip_number, S_mother_name, S_gender, S_mode_of_delivery,
                     S_child_name, S_father_name, S_birth_notification_no} :
          Get(record_data, field).t = "str"
    /\ StrLower(Get(record_data, S_gender).v)
          \in {<<"m","a","l","e">>, <<"f","e","m","a","l","e">>, <<"o","t","h","e","r">>}
    /\ StrLower(Get(record_data, S_mode_of_delivery).v)
          \in {<<"n","o","r","m","a","l">>, <<"c","-","s","e","c","t","i","o","n">>,
               <<"v","a","c","u","u","m">>, <<"f","o","r","c","e","p","s">>,
               <<"b","r","e","e","c","h">>}
    /\ Len(StrStrip(Get(record_data, S_mother_name).v)) >= MinNameLen

RowOutcome_IgnoresDryRun(record_data, seen, db, dry, committed) ==
    LET notification_no == Get(record_data, S_birth_notification_no).v
    IN  IF missing_fields(record_data) # {} THEN "missing"
        ELSE IF notification_no \in seen THEN "duplicate_in_file"
        ELSE IF notification_no \in db THEN "duplicate_in_database"
        ELSE IF ~BirthRecordCreate_Valid(record_data) THEN "invalid"
        ELSE IF committed THEN "created"
        ELSE "database_error"

\* birth_records.py lines 206-277: what happens to one row of the batch.
\* seen is processed_notification_nos, db the notification numbers of the
\* table, committed whether birth_record_crud.create gets its commit through.
RowOutcome(record_data, seen, db, dry, committed) ==
    LET notification_no == Get(record_data, S_birth_notification_no).v
    IN  IF missing_fields(record_data) # {} THEN "missing"
        ELSE IF notification_no \in seen THEN "duplicate_in_file"
        ELSE IF notification_no \in db THEN "duplicate_in_database"
        ELSE IF ~BirthRecordCreate_Valid(record_data) THEN "invalid"
        ELSE IF dry THEN "valid"
        ELSE IF committed THEN "created"
        ELSE "database_error"

\* birth_records.py lines 206-229 and 279-282 when db is None: the lookup
\* birth_record_crud.get_by_notification_no(db, ...) is db.query(...)
\* (crud/birth_record.py line 29), which raises AttributeError on None; the
\* handler of line 279 records the row in errors.
RowOutcomeWithoutSession(record_data, seen) ==
    LET notification_no == Get(record_data, S_birth_notification_no).v
    IN  IF missing_fields(record_data) # {} THEN "missing"
        ELSE IF notification_no \in seen THEN "duplicate_in_file"
        ELSE "processing_error"

RolledBack_WholeBatch(db, created) ==
    db \ {created[k].birth_notification_no : k \in 1..Len(created)}

\* db.rollback() after a failed commit (crud/birth_record.py lines 89-96,
\* birth_records.py lines 264-277): the pending row is discarded, the rows
\* committed before stay.
RolledBack(db, created) == db

\* The notification numbers the table may hold before the upload.
StoreStates == {{}, {<<"1","2","3","4","5">>}}

\* A request: a workbook of one worksheet, dry run or not, some table.
InitUpload ==
    /\ InitRun /\ nsheets = 1
    /\ dry_run \in BOOLEAN /\ session = TRUE /\ store \in StoreStates /\ table = <<>>

\* birth_records.py lines 171-197 and 324-329: parse_excel_file has ended; its
\* ValueError becomes HTTP 400, its records become the batch.
UploadStart ==
    /\ pc = "done"
    /\ IF result = "error"
       THEN pc' = "responded" /\ response' = "http_400" /\ row_number' = row_number
       ELSE pc' = "upload" /\ response' = response /\ row_number' = 1
    /\ UNCHANGED << workbook, api, calls, database, sheets, current, resolution,
                    original_columns, rowloop, collected, done_sheets, result,
                    processed_notification_nos, created_records, validation_errors,
                    duplicate_errors, database_errors, errors >>

UploadRow_SkipsKnownDuplicates ==
    /\ pc = "upload"
    /\ row_number <= Len(all_records)
    /\ \E committed \in BOOLEAN :
          LET record_data     == all_records[row_number]
              notification_no == Get(record_data, S_birth_notification_no).v
              outcome ==
                  IF session
                  THEN RowOutcome(record_data, processed_notification_nos, store,
                                  dry_run, committed)
                  ELSE RowOutcomeWithoutSession(record_data, processed_notification_nos)
          IN  /\ processed_notification_nos' =
                    IF outcome \in {"missing", "duplicate_in_file"}
                    THEN processed_notification_nos
                    ELSE processed_notification_nos \cup {notification_no}
              /\ validation_errors' =
                    IF outcome \in {"missing", "invalid"}
                    THEN Append(validation_errors, row_number)
                    ELSE validation_errors
              /\ duplicate_errors' =
                    IF outcome = "duplicate_in_file"
                    THEN Append(duplicate_errors, row_number)
                    ELSE duplicate_errors
              /\ database_errors' =
                    IF outcome = "database_error"
                    THEN Append(database_errors, row_number)
                    ELSE database_errors
              /\ errors' =
                    IF outcome = "processing_error"
                    THEN Append(errors, row_number)
                    ELSE errors
              /\ created_records' =
                    IF outcome \in {"valid", "created"}
                    THEN Append(created_records,
                                [row |-> row_number, status |-> outcome,
                                 birth_notification_no |-> notification_no])
                    ELSE created_records
              /\ store' =
                    CASE outcome = "created" -> store \cup {notification_no}
                      [] outcome = "database_error" -> RolledBack(store, created_records)
                      [] OTHER -> store
    /\ row_number' = row_number + 1
    /\ UNCHANGED << workbook, api, calls, dry_run, session, sheets, pc, current, resolution,
                    original_columns, rowloop, collected, done_sheets, result, response >>

\* birth_records.py lines 199-282: one round of the loop over records_data.
UploadRow ==
    /\ pc = "upload"
    /\ row_number <= Len(all_records)
    /\ \E committed \in BOOLEAN :
          LET record_data     == all_records[row_number]
              notification_no == Get(record_data, S_birth_notification_no).v
              outcome ==
                  IF session
                  THEN RowOutcome(record_data, processed_notification_nos, store,
                                  dry_run, committed)
                  ELSE RowOutcomeWithoutSession(record_data, processed_notification_nos)
          IN  /\ processed_notification_nos' =
                    IF outcome \in {"missing", "duplicate_in_file"}
                    THEN processed_notification_nos
                    ELSE processed_notification_nos \cup {notification_no}
              /\ validation_errors' =
                    IF outcome \in {"missing", "invalid"}
                    THEN Append(validation_errors, row_number)
                    ELSE validation_errors
              /\ duplicate_errors' =
                    IF outcome \in {"duplicate_in_file", "duplicate_in_database"}
                    THEN Append(duplicate_errors, row_number)
                    ELSE duplicate_errors
              /\ database_errors' =
                    IF outcome = "database_error"
                    THEN Append(database_errors, row_number)
                    ELSE database_errors
              /\ errors' =
                    IF outcome = "processing_error"
                    THEN Append(errors, row_number)
                    ELSE errors
              /\ created_records' =
                    IF outcome \in {"valid", "created"}
                    THEN Append(created_records,
                                [row |-> row_number, status |-> outcome,
                                 birth_notification_no |-> notification_no])
                    ELSE created_records
              /\ store' =
                    CASE outcome = "created" -> store \cup {notification_no}
                      [] outcome = "database_error" -> RolledBack(store, created_records)
                      [] OTHER -> store
    /\ row_number' = row_number + 1
    /\ UNCHANGED << workbook, api, calls, dry_run, session, sheets, pc, current, resolution,
                    original_columns, rowloop, collected, done_sheets, result, response >>

\* birth_records.py lines 284-315: the summary is returned.
UploadFinish ==
    /\ pc = "upload"
    /\ row_number > Len(all_records)
    /\ response' = "summary"
    /\ pc' = "responded"
    /\ UNCHANGED << workbook, api, calls, database, sheets, current, resolution,
                    original_columns, rowloop, collected, done_sheets, result,
                    row_number, processed_notification_nos, created_records,
                    validation_errors, duplicate_errors, database_errors, errors >>

NextUpload ==
    \/ Open
    \/ NextSheet(UploadSheetDescs)
    \/ Method1
    \/ Method2
    \/ Method3
    \/ Standardize
    \/ Positional
    \/ Content
    \/ ProcessRow
    \/ EndSheet
    \/ Finish
    \/ UploadStart
    \/ UploadRow
    \/ UploadFinish

\* One upload request, from the bytes to the response.
SpecUpload == InitUpload /\ [][NextUpload]_vars

\* birth_records.py lines 339-353: validate_excel_file calls upload_excel_file
\* as a plain function with db=None and dry_run=True; no dependency is
\* resolved for a direct call, so db stays None.
InitValidate ==
    /\ InitRun /\ nsheets = 1
    /\ dry_run = TRUE /\ session = FALSE /\ store \in StoreStates /\ table = <<>>

\* One validate-excel request, from the bytes to the response.
SpecValidate == InitValidate /\ [][NextUpload]_vars

\* A request of either endpoint.
InitRequests == InitUpload \/ InitValidate

SpecRequests == InitRequests /\ [][NextUpload]_vars

----------------------------------------------------------------------------
(* The record endpoints: create, update, delete, and an upload of one row *)

\* How many requests are under way at the same time.
MaxRequests == 2

\* current_user: the two flags of the User row the token names.
Users == [is_active : BOOLEAN, is_superuser : BOOLEAN]

\* The notification numbers the requests carry.
NotificationNos == {<<"1","2","3","4","5">>, <<"6","7","8","9","0">>}

\* The rows of birth_records before the requests, by id.
TableStates ==
    { <<>>,
      << <<"1","2","3","4","5">> >>,
      << <<"1","2","3","4","5">>, <<"6","7","8","9","0">> >> }

\* The ids a request may name.
RecordIds == 1..Cardinality(NotificationNos)

\* uuid.uuid4 (models/birth_record.py line 10): the id of the row request r
\* creates is an id no other row has or had.
NewId(r) == Cardinality(NotificationNos) + r

\* The requests that may arrive: a creation and a one-row upload carry a
\* notification number, an update an id and a number, a deletion an id.
Arrivals ==
    [kind : {"create", "upload"}, user : Users, no : NotificationNos, id : {0}]
    \cup [kind : {"update"}, user : Users, no : NotificationNos, id : RecordIds]
    \cup [kind : {"delete"}, user : Users, no : {<<>>}, id : RecordIds]

\* deps.py lines 35-40
get_current_active_user(current_user) ==
    IF ~current_user.is_active THEN "400 Inactive user" ELSE "admitted"

\* deps.py lines 42-49: the dependency is get_current_user, not
\* get_current_active_user; only is_superuser is tested.
get_current_active_superuser(current_user) ==
    IF ~current_user.is_superuser THEN "400 not enough privileges" ELSE "admitted"

\* birth_record_crud.get_by_notification_no(db, notification_no=no): the ids
\* of the rows with that number.
get_by_notification_no(no) == {i \in DOMAIN table : table[i] = no}

\* The unique index on birth_notification_no (models/birth_record.py line
\* 21) lets the commit of request rq through.
UniqueAtCommit(rq) ==
    \A i \in DOMAIN table : table[i] = rq.no => (rq.kind = "update" /\ i = rq.id)

InitApi ==
    /\ InitRun /\ nsheets = 1
    /\ dry_run = FALSE /\ session = TRUE /\ store = {}
    /\ table \in TableStates

\* A request reaches the server.
Arrive ==
    /\ Len(requests) < MaxRequests
    /\ \E a \in Arrivals :
          requests' = Append(requests, [kind |-> a.kind, user |-> a.user, no |-> a.no,
                                        id |-> a.id, pc |-> "arrived", answer |-> "none"])
    /\ UNCHANGED << workbook, calls, database, request, table, sheets, pc, current,
                    resolution, original_columns, rowloop, collected, done_sheets, result >>

\* birth_records.py lines 38, 75, 101, 145: the dependency current_user of the
\* endpoint.
Admit(r) ==
    /\ requests[r].pc = "arrived"
    /\ LET rq  == requests[r]
           dep == IF rq.kind = "delete"
                  THEN get_current_active_superuser(rq.user)
                  ELSE get_current_active_user(rq.user)
       IN  requests' =
              IF dep = "admitted"
              THEN [requests EXCEPT ![r].pc = "admitted"]
              ELSE [requests EXCEPT ![r].pc = "done", ![r].answer = dep]
    /\ UNCHANGED << workbook, calls, database, request, table, sheets, pc, current,
                    resolution, original_columns, rowloop, collected, done_sheets, result >>

\* The reads before the write: birth_records.py lines 42-49 (create), 78-91
\* (update), 104-106 (delete), 224-229 (upload).
Lookup(r) ==
    /\ requests[r].pc = "admitted"
    /\ LET rq == requests[r]
           answer ==
               CASE rq.kind = "create" ->
                       IF get_by_notification_no(rq.no) # {} THEN "400 already exists"
                       ELSE "none"
                 [] rq.kind = "update" ->
                       IF rq.id \notin DOMAIN table THEN "404"
                       ELSE IF get_by_notification_no(rq.no) \ {rq.id} # {}
                       THEN "400 already exists"
                       ELSE "none"
                 [] rq.kind = "delete" ->
                       IF rq.id \notin DOMAIN table THEN "404" ELSE "none"
                 [] OTHER ->
                       IF get_by_notification_no(rq.no) # {} THEN "summary: duplicate error"
                       ELSE "none"
       IN  requests' =
              IF answer = "none"
              THEN [requests EXCEPT ![r].pc = "checked"]
              ELSE [requests EXCEPT ![r].pc = "done", ![r].answer = answer]
    /\ UNCHANGED << workbook, calls, database, request, table, sheets, pc, current,
                    resolution, original_columns, rowloop, collected, done_sheets, result >>

\* The write: birth_record_crud.create, update and remove
\* (crud/birth_record.py lines 75-130).  create and update turn every
\* exception of the commit into ValueError; create_birth_record,
\* update_birth_record and delete_birth_record have no handler for it
\* (birth_records.py lines 51-54, 93-94, 108-109), upload_excel_file records
\* the row in database_errors (lines 274-277).
Commit(r) ==
    /\ requests[r].pc = "checked"
    /\ LET rq == requests[r]
           answer ==
               CASE rq.kind = "create" ->
                       IF UniqueAtCommit(rq) THEN "ok" ELSE "500 integrity error"
                 [] rq.kind = "update" ->
                       IF rq.id \notin DOMAIN table THEN "500 row is gone"
                       ELSE IF UniqueAtCommit(rq) THEN "ok"
                       ELSE "500 integrity error"
                 [] rq.kind = "delete" ->
                       IF rq.id \notin DOMAIN table THEN "500 row is gone" ELSE "ok"
                 [] OTHER ->
                       IF UniqueAtCommit(rq) THEN "ok" ELSE "summary: database error"
       IN  /\ requests' = [requests EXCEPT ![r].pc = "done", ![r].answer = answer]
           /\ table' =
                 IF answer # "ok" THEN table
                 ELSE CASE rq.kind = "update" -> [table EXCEPT ![rq.id] = rq.no]
                        [] rq.kind = "delete" ->
                              [i \in DOMAIN table \ {rq.id} |-> table[i]]
                        [] OTHER ->
                              [i \in DOMAIN table \cup {NewId(r)} |->
                                  IF i = NewId(r) THEN rq.no ELSE table[i]]
    /\ UNCHANGED << workbook, calls, database, request, sheets, pc, current,
                    resolution, original_columns, rowloop, collected, done_sheets, result >>

NextApi ==
    \/ Arrive
    \/ \E r \in 1..Len(requests) : Admit(r)
    \/ \E r \in 1..Len(requests) : Lookup(r)
    \/ \E r \in 1..Len(requests) : Commit(r)

\* Up to MaxRequests requests of the record endpoints, interleaved.
SpecApi == InitApi /\ [][NextApi]_vars

----------------------------------------------------------------------------
(* Properties *)

Range(s) == {s[i] : i \in 1..Len(s)}

\* The records collected so far that came from sheet k.
RecordsOfSheet(k) == {i \in 1..Len(all_src) : all_src[i][1] = k}

\* C1: parse_excel_file ends with its ValueError exactly when the workbook
\* cannot be opened or every sheet gave zero records; in every other case it
\* returns.
C1_ErrorInExactlyTwoCases ==
    pc = "done" =>
        /\ result \in {"ok", "error"}
        /\ result = "error" <=>
              \/ ~openable
              \/ \A k \in 1..Len(done_sheets) : done_sheets[k].n = 0

\* A workbook of two sheets that opens, one of them parsed, none giving a
\* record: the error of case (b).
C1_Witness ==
    /\ pc = "done"
    /\ openable
    /\ result = "error"
    /\ Len(done_sheets) = 2
    /\ \E k \in 1..2 : done_sheets[k].resolved /\ ~done_sheets[k].skipped

\* C2: a sheet that is empty, cannot be read or cannot be header-resolved is
\* skipped and gives no records; the loop goes on to every later sheet; and
\* the records of every other sheet, before and after, are all in the output.
C2_SheetIsolation ==
    /\ \A k \in 1..Len(done_sheets) :
          /\ (~done_sheets[k].readable \/ done_sheets[k].empty \/ ~done_sheets[k].resolved)
                => done_sheets[k].skipped
          /\ done_sheets[k].skipped => done_sheets[k].n = 0
          /\ Cardinality(RecordsOfSheet(k)) = done_sheets[k].n
    /\ Len(all_records) = Len(all_src)
    /\ (pc = "done" /\ openable) => Len(done_sheets) = nsheets

\* Sheet 1 gave two records, sheet 2 is empty: the call returns the two.
C2_Witness ==
    /\ pc = "done"
    /\ result = "ok"
    /\ Len(done_sheets) = 2
    /\ done_sheets[1].n = 2
    /\ done_sheets[2].empty /\ done_sheets[2].skipped
    /\ Len(all_records) = 2

\* <<sheet, row>> a comes before b: earlier sheet, or same sheet and earlier row.
SrcBefore(a, b) == a[1] < b[1] \/ (a[1] = b[1] /\ a[2] < b[2])

\* C3: the output is in sheet order and, within a sheet, in row order.
C3_SheetThenRowOrder ==
    /\ \A i \in 1..Len(all_src) : \A j \in 1..Len(all_src) :
          i < j => SrcBefore(all_src[i], all_src[j])
    /\ \A i \in 1..Len(sheet_src) : \A j \in 1..Len(sheet_src) :
          i < j => SrcBefore(sheet_src[i], sheet_src[j])
    /\ Len(all_records) = Len(all_src)
    /\ Len(sheet_records) = Len(sheet_src)

\* Two records of sheet 1 followed by a record of sheet 2.
C3_Witness ==
    /\ pc = "done"
    /\ result = "ok"
    /\ Len(all_src) = 3
    /\ all_src[1][1] = 1 /\ all_src[2][1] = 1 /\ all_src[3][1] = 2

\* The header methods in the order of the specification: (a) Method 1,
\* (b) Method A, (c) Method B, (d) Method C, (e) Method 3.
MethodOrder == <<"1", "A", "B", "C", "3">>

\* Whether a method, taken alone, succeeds on a worksheet.
MethodSucceeds(desc, m) ==
    LET df_raw == ReadExcelRaw(desc)
    IN  CASE m = "1" -> HeaderRowAccepted(desc, 0)
          [] m = "A" -> MethodA_Applies(df_raw)
          [] m = "B" -> MethodB_Rows(df_raw) # {}
          [] m = "C" -> Len(df_raw.cols) >= MinColumns /\ ~MethodC_Raises(df_raw)
          [] OTHER   -> \E h \in 1..3 : HeaderRowAccepted(desc, h)

\* The frame a method, taken alone, produces on a worksheet it succeeds on.
MethodFrame(desc, m) ==
    LET df_raw == ReadExcelRaw(desc)
    IN  CASE m = "1" -> ReadExcelHeader(desc, 0)
          [] m = "A" -> MethodA_Frame(df_raw)
          [] m = "B" -> MethodB_Frame(df_raw, SetMin(MethodB_Rows(df_raw)))
          [] m = "C" -> MethodC_Frame(df_raw)
          [] OTHER   -> ReadExcelHeader(desc, SetMin({h \in 1..3 : HeaderRowAccepted(desc, h)}))

\* The method a value of parsing_method names.
MethodOf(method) ==
    CASE method = "header_row_0" -> "1"
      [] method = "data_as_first_row" -> "A"
      [] method \in {DetectedMethod[r] : r \in 0..4} -> "B"
      [] method \in {AssumedMethod[r] : r \in 0..4} -> "C"
      [] method \in {HeaderRowMethod[h] : h \in 1..3} -> "3"
      [] OTHER -> "none"

\* C4: on a sheet that can be read the methods are attempted in the order
\* (a)..(e) up to the first that succeeds and no further; the frame and the
\* parsing method are those of that first success; the sheet has no frame
\* only when all five fail.
C4_FirstSuccessWins ==
    (pc = "parsed" /\ sheet_name.readable) =>
        LET wins  == {i \in 1..5 : MethodSucceeds(sheet_name, MethodOrder[i])}
            first == IF wins = {} THEN 6 ELSE SetMin(wins)
        IN  /\ tried = SubSeq(MethodOrder, 1, IF first = 6 THEN 5 ELSE first)
            /\ df.isnone <=> first = 6
            /\ first <= 5 =>
                  /\ MethodOf(parsing_method) = MethodOrder[first]
                  /\ df = MethodFrame(sheet_name, MethodOrder[first])

\* Method (e) is reached and chosen after (a)..(d) failed.
C4_Witness ==
    /\ pc = "parsed"
    /\ sheet_name.readable
    /\ tried = MethodOrder
    /\ parsing_method = "header_row_1"

\* The "meaningful headers" test on the cells of a worksheet row.
CleanHeaderCells(cells) ==
    Cardinality({j \in 1..Len(cells) :
                    /\ cells[j].t = "str"
                    /\ Len(StrStrip(cells[j].v)) > 2
                    /\ ~StrContains(StrLower(cells[j].v),
                                    <<"u","n","n","a","m","e","d">>)}) >= 3

HasCleanHeader(desc) ==
    /\ desc.readable
    /\ desc.rows # <<>>
    /\ desc.rows[1] \in {"header", "loose"}
    /\ CleanHeaderCells(SheetData(desc)[1])

\* C5: on a sheet whose row 0 is a clean header row, method (a) is chosen,
\* parsing_method is "header_row_0", and row 0 is not among the data rows.
C5_CleanHeaderUsesRow0 ==
    (pc = "parsed" /\ HasCleanHeader(sheet_name)) =>
        /\ parsing_method = "header_row_0"
        /\ ~df.isnone
        /\ \A i \in 1..Len(df.rows) : df.rows[i].src # 0

\* A sheet without a header row whose rows are complete data rows in the
\* canonical column order.
HeaderlessData(desc) ==
    /\ desc.readable
    /\ Len(desc.layout) >= 11
    /\ desc.rows # <<>>
    /\ \A i \in 1..Len(desc.rows) : desc.rows[i] = "full"

\* C6: a sheet without a header whose row 0 is a data row is classified as
\* data-only, and row 0 is among the records of the sheet.
C6_HeaderlessRowZeroIsData ==
    /\ (pc = "parsed" /\ HeaderlessData(sheet_name)) =>
          parsing_method = "data_as_first_row"
    /\ (pc = "rows" /\ rowi > Len(df.rows) /\ HeaderlessData(sheet_name)) =>
          <<sheet, 0>> \in Range(sheet_src)

\* C7: after the synonym step every label is a string without capitals,
\* blanks or quotes, a label whose normalized form is a key of the synonym
\* table has become that key's canonical field, and the columns labelled "IP. NO", "Sex"
\* and "DOB" are ip_number, gender and date_of_birth.
C7_SynonymMapping ==
    pc = "positional" =>
        /\ Len(df.cols) = Len(original_columns)
        /\ \A j \in 1..Len(df.cols) :
              LET label == df.cols[j].v
              IN  /\ df.cols[j].t = "str"
                  /\ \A i \in 1..Len(label) :
                        ~IsUpperCh(label[i]) /\ label[i] \notin {" ", "'", "\""}
                  /\ \A p \in COLUMN_MAPPING : label = p[1] => p[1] = p[2]
                  /\ \A p \in COLUMN_MAPPING :
                        NormalizeLabel(PyStr(original_columns[j])) = p[1] => label = p[2]
                  /\ original_columns[j] = Str(<<"I","P","."," ","N","O">>)
                        => label = S_ip_number
                  /\ original_columns[j] = Str(<<"S","e","x">>) => label = S_gender
                  /\ original_columns[j] = Str(<<"D","O","B">>) => label = S_date_of_birth

\* A frame with the three example labels, mapped.
C7_Witness ==
    /\ pc = "positional"
    /\ \E j \in 1..Len(df.cols) :
          original_columns[j] = Str(<<"I","P","."," ","N","O">>) /\ df.cols[j].v = S_ip_number
    /\ \E j \in 1..Len(df.cols) :
          original_columns[j] = Str(<<"S","e","x">>) /\ df.cols[j].v = S_gender
    /\ \E j \in 1..Len(df.cols) :
          original_columns[j] = Str(<<"D","O","B">>) /\ df.cols[j].v = S_date_of_birth

\* C8: when positional mapping is applied to a frame of 11 or more columns,
\* the frame it leaves has the i-th canonical name on its i-th column for
\* i = 1..11, and every row gives its 3rd cell as mother_name.
C8_PositionalByPosition ==
    [][(pc = "positional" /\ PositionalApplies(df) /\ ~df'.isnone) =>
          /\ \A i \in 1..Len(EXPECTED_COLUMNS) : df'.cols[i].v = EXPECTED_COLUMNS[i]
          /\ \A r \in 1..Len(df'.rows) :
                Get(RowToDict(df'.cols, df'.rows[r].cells), S_mother_name)
                    = df'.rows[r].cells[3]]_vars

\* A value that is a text of at least n characters after trimming.
TextOfAtLeast(c, n) == c.t = "str" /\ Len(StrStrip(c.v)) >= n

Emitted == Range(all_records) \cup Range(sheet_records)

\* C9: every record emitted has child_name and mother_name of at least 2
\* characters and birth_notification_no of at least 4, after trimming.
C9_NamesAndNotificationNo ==
    \A record \in Emitted :
        /\ TextOfAtLeast(Get(record, S_child_name), 2)
        /\ TextOfAtLeast(Get(record, S_mother_name), 2)
        /\ TextOfAtLeast(Get(record, S_birth_notification_no), 4)

\* The row loop of a sheet is over: some rows were emitted, some dropped.
C9_Witness ==
    /\ pc = "rows"
    /\ rowi > Len(df.rows)
    /\ sheet_records # <<>>
    /\ Len(sheet_records) < Len(df.rows)

\* C10: every record emitted has an ip_number of at least 2 characters.
C10_IpNumberPresent ==
    \A record \in Emitted : TextOfAtLeast(Get(record, S_ip_number), 2)


\* C11: every record emitted has record_date and date_of_birth, neither null.
C11_EssentialDatesPresent ==
    \A record \in Emitted :
        /\ Get(record, S_record_date).t # "none"
        /\ Get(record, S_date_of_birth).t # "none"


\* Row i of the frame of the sheet gives a complete record.
RowComplete(i) ==
    LET validated_record ==
            validate_and_clean_record(RowToDict(df.cols, df.rows[i].cells))
    IN  DOMAIN validated_record # {} /\ is_record_complete(validated_record)

\* The rows among the first n of the frame that give a complete record.
KeptRows(n) == SelectSeq([i \in 1..n |-> i], RowComplete)

\* C12: in the row loop the records of the sheet are exactly those of the
\* complete rows passed so far, in order: an incomplete row is dropped, the
\* rows before and after it are kept, and the call goes on.
C12_RowIsolation ==
    pc = "rows" =>
        /\ rowi \in 1..(Len(df.rows) + 1)
        /\ result = "none"
        /\ LET kept == KeptRows(rowi - 1)
           IN  /\ sheet_src = [k \in 1..Len(kept) |-> <<sheet, df.rows[kept[k]].src>>]
               /\ sheet_records =
                    [k \in 1..Len(kept) |->
                        validate_and_clean_record(
                            RowToDict(df.cols, df.rows[kept[k]].cells))]

\* The loop is over: a row was dropped and a later row was emitted.
C12_Witness ==
    /\ pc = "rows"
    /\ rowi > Len(df.rows)
    /\ \E i \in 1..Len(df.rows) : \E j \in 1..Len(df.rows) :
          /\ i < j
          /\ ~RowComplete(i)
          /\ RowComplete(j)
          /\ <<sheet, df.rows[j].src>> \in Range(sheet_src)
          /\ <<sheet, df.rows[i].src>> \notin Range(sheet_src)


\* The day a date YYYY-MM-DD stands for, as a number that orders the dates.
DateNum(s) ==
    LET d(i) == DigitVal(s[i])
    IN  10000 * (1000 * d(1) + 100 * d(2) + 10 * d(3) + d(4))
          + 100 * (10 * d(6) + d(7)) + (10 * d(9) + d(10))

\* C13: no record emitted has both dates with date_of_birth later than
\* record_date (such a date_of_birth would have been nulled).
C13_BirthNotAfterRecordDate ==
    \A record \in Emitted :
        LET record_date   == Get(record, S_record_date)
            date_of_birth == Get(record, S_date_of_birth)
        IN  (record_date.t = "date" /\ date_of_birth.t = "date")
                => ~(DateNum(record_date.v) < DateNum(date_of_birth.v))


Male == Str(<<"M","a","l","e">>)

Female == Str(<<"F","e","m","a","l","e">>)

Other == Str(<<"O","t","h","e","r">>)

\* What a gender cell that is not null stands for: its text, trimmed and
\* without regard to case, looked up among the five accepted words.
GenderOf(c) ==
    LET word == StrLower(StrStrip(PyStr(c)))
    IN  IF word \in {<<"m">>, <<"m","a","l","e">>} THEN Male
        ELSE IF word \in {<<"f">>, <<"f","e","m","a","l","e">>} THEN Female
        ELSE IF word = <<"o","t","h","e","r">> THEN Other
        ELSE None

\* The raw record of row i of the frame of the sheet.
RawRecord(i) == RowToDict(df.cols, df.rows[i].cells)

\* C14: for every row of a cleaned frame with a gender column, the cleaned
\* gender is Male, Female or Other as the trimmed, case-folded cell says, and
\* null for a missing cell and for every other value.
C14_GenderNormalized ==
    pc = "rows" =>
        \A i \in 1..Len(df.rows) :
            S_gender \in DOMAIN RawRecord(i) =>
                LET cell   == RawRecord(i)[S_gender]
                    gender == validate_and_clean_record(RawRecord(i))[S_gender]
                IN  /\ gender \in {Male, Female, Other, None}
                    /\ gender = IF IsNa(cell) THEN None ELSE GenderOf(cell)

\* A record was emitted whose gender cell " male " became Male.
C14_Witness ==
    /\ pc = "rows"
    /\ rowi > Len(df.rows)
    /\ Len(df.rows) = 1
    /\ RawRecord(1)[S_gender] = Str(<<" ","m","a","l","e"," ">>)
    /\ Len(sheet_records) = 1
    /\ sheet_records[1][S_gender] = Male


\* C15: the keys of every record emitted are exactly the 11 canonical field
\* names.
C15_ExactlyCanonicalKeys ==
    \A record \in Emitted : DOMAIN record = Range(EXPECTED_COLUMNS)


\* C16: for every row of a cleaned frame, each of the four date fields the
\* row has holds a calendar date or null after cleaning.
C16_DateOrNull ==
    pc = "rows" =>
        \A i \in 1..Len(df.rows) :
            \A field \in date_fields \cap DOMAIN RawRecord(i) :
                validate_and_clean_record(RawRecord(i))[field].t \in {"date", "none"}


\* C17: a second call on the same workbook ends as the first did: the same
\* error, or the same records in the same order.
C17_SameOutcomeTwice ==
    (pc = "done" /\ earlier # <<>>) =>
        /\ result = earlier[1].result
        /\ all_records = earlier[1].records


\* The rows of the batch the upload has recorded in a list of row numbers.
RowsIn(list) == Range(list)

CreatedRows == {created_records[k].row : k \in 1..Len(created_records)}

NotificationNoOfRow(i) == Get(all_records[i], S_birth_notification_no).v

\* C18: a row whose creation fails in the database leaves no trace in the
\* table and is recorded in database_errors; the rows created before it are
\* still in the table; every row of the batch up to the current one has been
\* processed and is in exactly one of the four lists; and a request whose
\* workbook parsed ends with the summary.
C18_PersistenceIsolation ==
    /\ \A k \in 1..Len(created_records) :
          created_records[k].status = "created"
              => created_records[k].birth_notification_no \in store
    /\ \A i \in RowsIn(database_errors) : NotificationNoOfRow(i) \notin store
    /\ pc \in {"upload", "responded"} /\ result = "ok" =>
          /\ CreatedRows \cup RowsIn(validation_errors) \cup RowsIn(duplicate_errors)
                \cup RowsIn(database_errors) = 1..(row_number - 1)
          /\ Len(created_records) + Len(validation_errors) + Len(duplicate_errors)
                + Len(database_errors) = row_number - 1
    /\ pc = "responded" /\ result = "ok" =>
          /\ response = "summary"
          /\ row_number = Len(all_records) + 1

\* The request is answered: the creation of row 2 failed, row 1 before it and
\* row 3 after it were created and are in the table.
C18_Witness ==
    /\ pc = "responded"
    /\ response = "summary"
    /\ ~dry_run
    /\ database_errors = <<2>>
    /\ CreatedRows = {1, 3}
    /\ {NotificationNoOfRow(1), NotificationNoOfRow(3)} \subseteq store
    /\ NotificationNoOfRow(2) \notin store

\* C19: no record is created for a row whose notification number is that of
\* an earlier row of the batch, and every such row is in duplicate_errors.
C19_NoDuplicateCreated ==
    pc \in {"upload", "responded"} =>
        \A i \in 1..(row_number - 1) :
            (\E j \in 1..(i - 1) : NotificationNoOfRow(j) = NotificationNoOfRow(i))
                => i \notin CreatedRows /\ i \in RowsIn(duplicate_errors)

\* C20: in a dry run no step of the request changes the table, and the rows
\* that pass all checks are reported with status "valid".
C20_DryRunLeavesStore ==
    [][dry_run =>
          /\ store' = store
          /\ \A k \in 1..Len(created_records') : created_records'[k].status = "valid"]_vars

\* A dry run is answered with rows reported valid.
C20_Witness ==
    /\ dry_run
    /\ pc = "responded"
    /\ response = "summary"
    /\ Len(created_records) >= 2
    /\ \A k \in 1..Len(created_records) :
          created_records[k].birth_notification_no \notin store


\* The notification numbers upload_excel_file has in processed_notification_nos
\* when it reaches row i: those of the earlier rows that passed the
\* required-fields check (a number met twice is already in the set).
SeenBefore(i) ==
    {NotificationNoOfRow(j) : j \in {k \in 1..(i - 1) : missing_fields(all_records[k]) = {}}}

\* What upload_excel_file called with dry_run=True against the table does
\* with row i of the batch.
DryRunOutcome(i) == RowOutcome(all_records[i], SeenBefore(i), store, TRUE, TRUE)

\* C21: when validate_excel_file has answered with the summary, its lists are
\* those of upload_excel_file called with dry_run=True on the same workbook
\* and table: the valid rows, the validation errors and the duplicate errors
\* are the same rows, no row is in any other list, and the table is as it was.
C21_ValidateIsDryRun ==
    response = "summary" /\ ~session =>
        /\ CreatedRows = {i \in 1..Len(all_records) : DryRunOutcome(i) = "valid"}
        /\ RowsIn(validation_errors)
              = {i \in 1..Len(all_records) : DryRunOutcome(i) \in {"missing", "invalid"}}
        /\ RowsIn(duplicate_errors)
              = {i \in 1..Len(all_records) :
                    DryRunOutcome(i) \in {"duplicate_in_file", "duplicate_in_database"}}
        /\ database_errors = <<>>
        /\ errors = <<>>
        /\ store \in StoreStates

\* The same statement for upload_excel_file itself called with dry_run=True,
\* which holds: the comparison above is against what the code does.
C21_DryRunUploadAgrees ==
    response = "summary" /\ session /\ dry_run =>
        /\ CreatedRows = {i \in 1..Len(all_records) : DryRunOutcome(i) = "valid"}
        /\ RowsIn(validation_errors)
              = {i \in 1..Len(all_records) : DryRunOutcome(i) \in {"missing", "invalid"}}
        /\ RowsIn(duplicate_errors)
              = {i \in 1..Len(all_records) :
                    DryRunOutcome(i) \in {"duplicate_in_file", "duplicate_in_database"}}
        /\ database_errors = <<>>
        /\ errors = <<>>


\* The rows of a raw frame, among the first five, with 5 or more values.
RichRows(df_raw) ==
    {r \in 1..Len(df_raw.rows) :
        r <= 5 /\ Cardinality({j \in 1..Len(df_raw.rows[r].cells) :
                                  ~IsNa(df_raw.rows[r].cells[j])}) >= 5}

\* C22: on a sheet of 8 or more columns, of any width, on which methods
\* (a)-(c) did not succeed, method (d) gives a frame: its method is one of the
\* assumed_headers_from_row_N, its first columns carry the canonical names in
\* the canonical order, and its rows are those of the sheet from the first
\* row with 5 or more values onward.
C22_AssumedOrderSucceeds ==
    LET df_raw == ReadExcelRaw(sheet_name)
    IN  (/\ pc = "method3"
         /\ sheet_name.readable
         /\ tried = <<"1", "A", "B", "C">>
         /\ Len(df_raw.cols) >= 8) =>
            /\ ~df.isnone
            /\ MethodOf(parsing_method) = "C"
            /\ \A j \in 1..Len(df.cols) :
                  j <= Len(EXPECTED_COLUMNS) => df.cols[j] = Str(EXPECTED_COLUMNS[j])
            /\ RichRows(df_raw) # {} =>
                  /\ parsing_method = AssumedMethod[SetMin(RichRows(df_raw)) - 1]
                  /\ [i \in 1..Len(df.rows) |-> df.rows[i].cells]
                        = [i \in 1..(Len(df_raw.rows) - SetMin(RichRows(df_raw)) + 1) |->
                              df_raw.rows[i + SetMin(RichRows(df_raw)) - 1].cells]

\* The same statement for sheets of 8 to 11 columns, which holds.
C22_AssumedOrderUpToEleven ==
    Len(ReadExcelRaw(sheet_name).cols) <= Len(EXPECTED_COLUMNS) => C22_AssumedOrderSucceeds


\* The rows of a raw frame, among rows 0 to 4, with at least 4 text cells
\* (texts of more than two characters), at most 1 date cell and at most 2
\* numeric cells (0-based row numbers).
HeaderLikeRows(df_raw) ==
    {r \in 0..4 :
        /\ r < Len(df_raw.rows)
        /\ LET cells == df_raw.rows[r + 1].cells
               Count(kind) == Cardinality({j \in 1..Len(cells) : cells[j].t = kind})
           IN  /\ Cardinality({j \in 1..Len(cells) :
                      cells[j].t = "str" /\ Len(StrStrip(cells[j].v)) > 2}) >= 4
               /\ Count("ts") <= 1
               /\ Count("num") <= 2}

\* C23: when the header scan is reached on a sheet, the first of rows 0 to 4
\* that looks like a header is accepted: the frame is labelled with its cells,
\* the rows above it are gone and the rows of the frame are exactly the rows
\* beneath it, in order.
C23_HeaderScan ==
    LET df_raw == ReadExcelRaw(sheet_name)
    IN  (/\ pc = "method3"
         /\ sheet_name.readable
         /\ Len(tried) >= 3
         /\ SubSeq(tried, 1, 3) = <<"1", "A", "B">>
         /\ HeaderLikeRows(df_raw) # {}) =>
            LET r == SetMin(HeaderLikeRows(df_raw))
            IN  /\ tried = <<"1", "A", "B">>
                /\ ~df.isnone
                /\ parsing_method = DetectedMethod[r]
                /\ df.cols = df_raw.rows[r + 1].cells
                /\ [i \in 1..Len(df.rows) |-> df.rows[i].src]
                      = [i \in 1..(Len(df_raw.rows) - r - 1) |-> df_raw.rows[i + r + 1].src]
                /\ \A i \in 1..Len(df.rows) : df.rows[i].cells = df_raw.rows[i + r + 1].cells

\* The same statement for sheets whose first header-like row has a row
\* beneath it, which holds.
C23_HeaderScanWithRowsBeneath ==
    LET df_raw == ReadExcelRaw(sheet_name)
    IN  (HeaderLikeRows(df_raw) # {}
            => SetMin(HeaderLikeRows(df_raw)) + 1 < Len(df_raw.rows))
        => C23_HeaderScan


\* The labels the synonym table alone gives the columns the frame had when
\* cleaning started (lines 231-296).
SynonymLabels ==
    [j \in 1..Len(original_columns) |->
        Str(MapLabel(NormalizeLabel(PyStr(original_columns[j]))))]

\* C24: when the synonym table alone maps every required field, the weaker
\* tiers rename nothing: after positional mapping and after content sniffing
\* the frame still carries the labels the synonym table gave it.
C24_WeakerTiersOnlyWhenNeeded ==
    (/\ pc \in {"content", "rows"}
     /\ missing_required(SynonymLabels) = {}) => df.cols = SynonymLabels

\* The same statement for positional mapping alone, which holds.
C24_PositionalOnlyWhenNeeded ==
    (/\ pc = "content"
     /\ missing_required(SynonymLabels) = {}) => df.cols = SynonymLabels

\* The tiers in order: positional mapping starts from the labels of the
\* synonym table, content sniffing from those positional mapping left.
C24_TierOrder ==
    [][/\ pc = "positional" => df.cols = SynonymLabels
       /\ pc = "positional" /\ pc' = "content" => df' = PositionalMapping(df)
       /\ pc = "content" /\ pc' = "rows" => df' = FinishCleaning(df)]_vars


Normal == Str(<<"N","o","r","m","a","l">>)

\* C25: for every row of a cleaned frame with a mode_of_delivery column, the
\* cleaned mode of delivery is "Normal" only when the cell, trimmed and
\* without regard to case, reads "normal".
C25_NeverSilentlyNormal ==
    pc = "rows" =>
        \A i \in 1..Len(df.rows) :
            S_mode_of_delivery \in DOMAIN RawRecord(i) =>
                LET cell == RawRecord(i)[S_mode_of_delivery]
                    mode == validate_and_clean_record(RawRecord(i))[S_mode_of_delivery]
                IN  mode = Normal =>
                        /\ ~IsNa(cell)
                        /\ StrLower(StrStrip(PyStr(cell))) = <<"n","o","r","m","a","l">>

\* A record was emitted whose mode of delivery "Water Birth" is not a known
\* one: it was kept as written, not turned into Normal.
C25_Witness ==
    /\ pc = "rows"
    /\ rowi > Len(df.rows)
    /\ Len(df.rows) = 1
    /\ RawRecord(1)[S_mode_of_delivery] = Str(<<"W","a","t","e","r"," ","B","i","r","t","h">>)
    /\ Len(sheet_records) = 1
    /\ sheet_records[1][S_mode_of_delivery] = Str(<<"W","a","t","e","r"," ","B","i","r","t","h">>)


\* A worksheet that consists of a header row alone, 8 to 11 text labels wide.
HeaderOnly(desc) ==
    /\ desc.readable
    /\ Len(desc.layout) \in 8..11
    /\ desc.rows \in {<<"header">>, <<"loose">>}

\* C26: no record is ever extracted from a sheet that consists of a header
\* row alone, whichever header method handled the sheet.
C26_HeaderNeverARecord ==
    \A k \in 1..Len(sheets) :
        HeaderOnly(sheets[k]) =>
            /\ \A n \in 1..Len(all_src) : all_src[n][1] # k
            /\ sheet = k => sheet_records = <<>>


\* C27: in the frame clean_and_standardize_dataframe returns, no canonical
\* field name is the label of two columns.
C27_NoDuplicateCanonicalColumn ==
    pc = "rows" =>
        \A i, j \in 1..Len(df.cols) :
            (i # j /\ df.cols[i] = df.cols[j]) => ~IsExpected(df.cols[i].v)

\* The same statement for the frames whose labels, as the synonym table maps
\* them, are all canonical and all different, which holds: positional mapping
\* and content sniffing then add no duplicate.
C27_NoDuplicateFromCanonicalLabels ==
    (/\ \A i \in 1..Len(SynonymLabels) : IsExpected(SynonymLabels[i].v)
     /\ \A i, j \in 1..Len(SynonymLabels) : SynonymLabels[i] = SynonymLabels[j] => i = j)
        => C27_NoDuplicateCanonicalColumn


\* The lists of the response, in the order of all_errors (line 285).
ErrorRows ==
    validation_errors \o duplicate_errors \o database_errors \o errors

\* C28: in every summary upload_excel_file returns, each record of the batch
\* is in created_records or in exactly one of the four error lists, exactly
\* once, so that success_count + error_count = total_records.
C28_UploadAccounting ==
    response = "summary" =>
        /\ \A i \in 1..Len(all_records) :
              Cardinality({k \in 1..Len(created_records) : created_records[k].row = i})
                 + Cardinality({k \in 1..Len(ErrorRows) : ErrorRows[k] = i}) = 1
        /\ Len(created_records) + Len(ErrorRows) = Len(all_records)

\* A summary of three rows: one created, one with missing fields, one a
\* duplicate.
C28_Witness ==
    /\ response = "summary"
    /\ session
    /\ Len(all_records) = 3
    /\ Len(created_records) = 1
    /\ Len(validation_errors) = 1
    /\ Len(duplicate_errors) = 1


\* The requests the dependency of their endpoint let through.
AdmittedRequests ==
    {r \in 1..Len(requests) :
        /\ requests[r].pc # "arrived"
        /\ requests[r].answer \notin {"400 Inactive user", "400 not enough privileges"}}

\* C29: every deletion that get_current_active_superuser admitted comes from
\* a user who is active and a superuser, and no row is deleted for an
\* inactive user.
C29_SuperuserIsActive ==
    \A r \in AdmittedRequests :
        requests[r].kind = "delete" =>
            requests[r].user.is_active /\ requests[r].user.is_superuser

\* The half of it that holds: an admitted deletion comes from a superuser,
\* and the other endpoints admit active users only.
C29_AdmittedAsTested ==
    \A r \in AdmittedRequests :
        IF requests[r].kind = "delete"
        THEN requests[r].user.is_superuser
        ELSE requests[r].user.is_active


\* C30: whatever the interleaving, no two rows of the table have the same
\* birth_notification_no, and a creation, an update or an upload that finds
\* its number taken at the commit is answered with the 400 rejection or, in
\* an upload, with a row error of the summary, never with success and never
\* with a failure the endpoint does not handle.
C30_UniqueUnderConcurrency ==
    /\ \A i, j \in DOMAIN table : table[i] = table[j] => i = j
    /\ \A r \in 1..Len(requests) :
          requests[r].answer # "500 integrity error"

\* The half of it that holds: the table never has two rows with the same
\* number, whoever wins, and the upload records the lost race as a row error.
C30_TableStaysUnique ==
    /\ \A i, j \in DOMAIN table : table[i] = table[j] => i = j
    /\ \A r \in 1..Len(requests) :
          requests[r].kind = "upload" =>
              requests[r].answer \in {"none", "ok", "400 Inactive user",
                                      "summary: duplicate error", "summary: database error"}

====
